---- MODULE Spec2Model ----
(***************************************************************************)
(* A model of the core of the build executor: the pool scheduler of        *)
(* src/src/state.cc, the plan and builder driver and the dependency scan.  *)
(***************************************************************************)
EXTENDS Integers, Sequences, FiniteSets, TLC

\* ------------------------------------------------------------ bounds
NumEdges == 3
MaxWeight == 2
MaxDepth == 2
MaxParallelism == 2
MaxFailures == 2
MaxDuration == 2
NumNodes == 3
MaxMtime == 2
NumPaths == 2
MaxStateEdges == 2
MaxCalls == 5
MaxLogLines == 2
MaxRecords == 1
StatusParallelism == 2
MaxTargets == 2
MaxPathLen == 7
MaxStackDepth == 6

Edges == 1..NumEdges

Nodes == 1..NumNodes

\* ------------------------------------------------------------ program constants
\* Pool State::kDefaultPool("", 0);
kDefaultPoolDepth == 0
\* Pool State::kConsolePool("console", 1);
kConsolePoolDepth == 1
\* const int kOldestSupportedVersion = 4;
kOldestSupportedVersion == 4
\* const int kCurrentVersion = 5;
kCurrentVersion == 5
\* int kMinCompactionEntryCount = 100;
kMinCompactionEntryCount == 100
\* int kCompactionRatio = 3;
kCompactionRatio == 3
kCycleLimit == 100
\* const int kMaxPathComponents = 60;
kMaxPathComponents == 60
\* The nanoseconds of a second, in the TimeStamp that Stat returns.
kNanosPerSecond == 1000000000

VARIABLES
  depth,        \* Pool::depth_
  current_use,  \* Pool::current_use_
  delayed,      \* Pool::delayed_ (a set; iterated in EdgeLess order)
  ready_queue,  \* the EdgeSet handed to RetrieveReadyEdges (Plan::ready_)
  running,      \* edges the caller took out of ready_queue and started
  finished,     \* edges for which EdgeFinished was called
  weight,       \* Edge::weight() of each edge
  last,         \* the last call: its name, its edge (0: none), and
                \* delayed_ and current_use_ as they were when it was made
  critical_time,   \* each edge's critical time (fixed when the plan is made)
  deps,            \* for each edge, the edges that produce its inputs
  outputs_ready,   \* edges with Edge::outputs_ready_ set
  want,            \* each edge's state in the plan
  unready,         \* each wanted edge's counter of unready inputs
  parallelism,     \* BuildConfig::parallelism
  failures_allowed,\* BuildConfig::failures_allowed
  failures,        \* the failures counted by the builder
  status,          \* where the builder is: adding targets, building, or how Build ended
  inputs,          \* dependency scan: each node's producing edge's inputs
  order_only,      \* those of them that are order-only
  generated,       \* the nodes that have a producing edge (Node::in_edge)
  phony,           \* the nodes whose producing edge is phony
  disk_mtime,      \* the disk: each path's mtime, 0 for a missing file
  node_mtime,      \* Node::mtime_: -1 before the node is statted
  node_status,     \* each node's status: unknown, clean or dirty
  stats,           \* the paths passed to DiskInterface::Stat, in order
  mark,            \* Edge::mark_ of each node's producing edge: none, in-stack, done
  stack,           \* the depth-first search's stack: the node entered and the
                   \* inputs of its edge still to visit
  target,          \* the node passed to add_target (0: none yet)
  cycle_err,       \* the cycle the error names (empty: no error)
  planned,         \* the targets add_target put into the plan
  scan_pc,         \* where add_target is: idle, scan, ok or error
  state_paths,     \* State::paths_: the node of each path that has one, with its
                   \* in_edge (<<>>: nullptr), out_edges and validation_out_edges
  state_edges,     \* State::edges_: inputs_, outputs_ and validations_ of each edge
  state_calls,     \* the number of calls made on the State
  state_last,      \* the last call on the State, its result, and paths_ and
                   \* edges_ as they were when it was made
  files,           \* the disk: the content of each file that exists
  output_stat,     \* the disk: what Stat returns for each output path
  manifest_outputs,\* the paths that have a node with an in_edge in the State
  entries,         \* BuildLog::entries_
  needs_recompaction, \* BuildLog::needs_recompaction_
  log_file,        \* BuildLog::log_file_ is not null
  log_file_path,   \* BuildLog::log_file_path_ ("": empty)
  log_pc,          \* where the process is in its use of the build log
  log_last,        \* the last call on the build log, its result, and the
                   \* state it was made in
  log_caller,      \* the caller of the Recompact that is running ("": none)
  log_hist,        \* what happened to the build log in this process
  printer,         \* the LinePrinter: have_blank_line_, console_locked_,
                   \* smart_terminal_, line_buffer_ and output_buffer_
  terminal,        \* what was written to stdout, in order
  printer_hist,    \* what was passed to the printer since the console was locked
  main,            \* real_main: where it is, the cycle of its loop, the options,
                   \* the exit code, and the numbers of parses, manifest
                   \* rebuilds and primary builds
  main_last,       \* the last call of RunBuild: what it met and its result
  cleaner,         \* the Cleaner: status_, cleaned_files_count_, removed_,
                   \* cleaned_ and config_.dry_run
  clean_disk,      \* the disk the Cleaner works on: what each path is
  clean_last,      \* the clean operation made: its arguments, the disk as it
                   \* was, and the calls of RemoveFile with their results
  call_in,         \* what a function is called on: the path to canonicalize,
                   \* or what stat(2) gives for each path
  call_last        \* the last call of the function: its argument and result

poolVars == <<depth, current_use, delayed, ready_queue, running, finished, weight>>

configVars == <<critical_time, deps, parallelism, failures_allowed>>

planVars == <<outputs_ready, want, unready, failures, status>>

graphVars == <<inputs, order_only, generated, phony, disk_mtime>>

scanVars == <<node_mtime, node_status, stats>>

cycleVars == <<mark, stack, target, cycle_err, planned, scan_pc>>

stateVars == <<state_paths, state_edges, state_calls, state_last>>

logVars == <<files, output_stat, manifest_outputs, entries, needs_recompaction,
             log_file, log_file_path, log_pc, log_last, log_caller, log_hist>>

printerVars == <<printer, terminal, printer_hist>>

mainVars == <<main, main_last>>

cleanVars == <<cleaner, clean_disk, clean_last>>

callVars == <<call_in, call_last>>

moreVars == <<printerVars, mainVars, cleanVars, callVars>>

auxVars == <<cycleVars, stateVars, logVars, moreVars>>

coreVars == <<poolVars, configVars, planVars>>

vars == <<poolVars, last, configVars, planVars, graphVars, scanVars, auxVars>>

\* The cycle check's variables where no cycle check is modelled.
NoCycle ==
  /\ mark = [n \in Nodes |-> "none"]
  /\ stack = << >>
  /\ target = 0
  /\ cycle_err = << >>
  /\ planned = {}
  /\ scan_pc = "idle"

\* The State's graph where its construction is not modelled.
NoState ==
  /\ state_paths = << >>
  /\ state_edges = << >>
  /\ state_calls = 0
  /\ state_last = [op |-> "init"]

\* The build log where it is not modelled.
NoLog ==
  /\ files = << >>
  /\ output_stat = << >>
  /\ manifest_outputs = {}
  /\ entries = << >>
  /\ needs_recompaction = FALSE
  /\ log_file = FALSE
  /\ log_file_path = ""
  /\ log_pc = "none"
  /\ log_last = [op |-> "init"]
  /\ log_caller = ""
  /\ log_hist = [op |-> "init"]

\* The printer where it is not modelled.
NoPrinter ==
  /\ printer = [op |-> "init"]
  /\ terminal = << >>
  /\ printer_hist = [op |-> "init"]

\* real_main where it is not modelled.
NoMain ==
  /\ main = [pc |-> "none"]
  /\ main_last = [op |-> "init"]

\* The Cleaner where it is not modelled.
NoClean ==
  /\ cleaner = [pc |-> "none"]
  /\ clean_disk = << >>
  /\ clean_last = [op |-> "init"]

\* The functions of util.cc and disk_interface.cc where they are not called.
NoCall ==
  /\ call_in = << >>
  /\ call_last = [op |-> "init"]

NoMore == NoPrinter /\ NoMain /\ NoClean /\ NoCall

NoAux == NoCycle /\ NoState /\ NoLog /\ NoMore

\* The scan's variables where no scan is modelled.
NoScan ==
  /\ inputs = [n \in Nodes |-> {}]
  /\ order_only = [n \in Nodes |-> {}]
  /\ generated = {}
  /\ phony = {}
  /\ disk_mtime = [n \in Nodes |-> 0]
  /\ node_mtime = [n \in Nodes |-> -1]
  /\ node_status = [n \in Nodes |-> "unknown"]
  /\ stats = << >>

\* ------------------------------------------------------------ Pool (state.cc)

\* A variant without the tie-break: edges of equal critical time are unordered.
EdgeLess_NoTieBreak(a, b) == critical_time[a] > critical_time[b]

\* Iteration order of Pool::delayed_ and of the ready queue: the larger
\* critical time first, ties broken by the smaller edge id.
EdgeLess(a, b) ==
  \/ critical_time[a] > critical_time[b]
  \/ critical_time[a] = critical_time[b] /\ a < b

\* The elements of the edge set S as a sequence in iteration order.
RECURSIVE InOrder(_)
InOrder(S) ==
  IF S = {} THEN << >>
  ELSE LET first == CHOOSE a \in S : \A b \in S \ {a} : ~EdgeLess(b, a)
       IN  <<first>> \o InOrder(S \ {first})

\* A variant that counts edges instead of their weights.
EdgeScheduledUse_CountsEdges(d, cu, w) == IF d # 0 THEN cu + 1 ELSE cu

\* Pool::EdgeScheduled: the new current_use_.
EdgeScheduledUse(d, cu, w) == IF d # 0 THEN cu + w ELSE cu

\* A variant without the depth test.
EdgeFinishedUse_Unguarded(d, cu, w) == cu - w

\* Pool::EdgeFinished: the new current_use_.
EdgeFinishedUse(d, cu, w) == IF d # 0 THEN cu - w ELSE cu

\* A variant that is off by one: an edge that fills the pool exactly is refused.
DoesNotFit_OffByOne(d, cu, w) == cu + w >= d

\* A variant that forgets the weight already in use.
DoesNotFit_IgnoresUse(d, cu, w) == w > d

\* The loop test of Pool::RetrieveReadyEdges: the edge does not fit, break.
DoesNotFit(d, cu, w) == cu + w > d

\* Pool::RetrieveReadyEdges: the loop over the delayed edges, from position i
\* of the sequence seq with current_use cu; the result is the number of edges
\* taken and the final current_use.
RECURSIVE RetrieveLoop(_, _, _, _, _)
RetrieveLoop(seq, i, d, cu, w) ==
  IF i > Len(seq) THEN [taken |-> i - 1, use |-> cu]
  ELSE IF DoesNotFit(d, cu, w[seq[i]]) THEN [taken |-> i - 1, use |-> cu]
  ELSE RetrieveLoop(seq, i + 1, d, EdgeScheduledUse(d, cu, w[seq[i]]), w)

\* A variant that leaves out the first edge.
SeqPrefixSet_AfterFirst(seq, n) == {seq[i] : i \in 2..n}

\* The edges from delayed_.begin() to it: the first n in iteration order.
SeqPrefixSet(seq, n) == {seq[i] : i \in 1..n}

Fresh(e) == e \notin delayed \cup ready_queue \cup running \cup finished

InitPool ==
  /\ depth \in 0..MaxDepth
  /\ current_use = 0
  /\ delayed = {}
  /\ ready_queue = {}
  /\ running = {}
  /\ finished = {}
  /\ weight \in [Edges -> 1..MaxWeight]
  /\ last = [op |-> "init", edge |-> 0, delayed |-> {}, use |-> 0]
  /\ critical_time \in {[e \in Edges |-> 0], [e \in Edges |-> e]}
  /\ deps = [e \in Edges |-> {}]
  /\ outputs_ready = {}
  /\ want = [e \in Edges |-> "NotInPlan"]
  /\ unready = [e \in Edges |-> 0]
  /\ parallelism = 1
  /\ failures_allowed = 1
  /\ failures = 0
  /\ status = "pool"
  /\ NoScan
  /\ NoAux

\* Pool::DelayEdge (asserts depth_ != 0); each edge is handed to its pool once.
DelayEdge(e) ==
  /\ depth # 0
  /\ Fresh(e)
  /\ delayed' = delayed \cup {e}
  /\ last' = [op |-> "DelayEdge", edge |-> e, delayed |-> delayed, use |-> current_use]
  /\ UNCHANGED <<depth, current_use, ready_queue, running, finished, weight, configVars, graphVars, scanVars, planVars, auxVars>>

\* Pool::RetrieveReadyEdges(&ready_queue)
RetrieveReadyEdges ==
  LET seq == InOrder(delayed)
      r   == RetrieveLoop(seq, 1, depth, current_use, weight)
      out == SeqPrefixSet(seq, r.taken)
  IN  /\ ready_queue' = ready_queue \cup out
      /\ delayed' = delayed \ out
      /\ current_use' = r.use
      /\ last' = [op |-> "RetrieveReadyEdges", edge |-> 0, delayed |-> delayed,
                   use |-> current_use, ready |-> ready_queue]
      /\ UNCHANGED <<depth, running, finished, weight, configVars, graphVars, scanVars, planVars, auxVars>>

\* The caller's pass-through for a pool that does not delay (depth 0):
\* pool->EdgeScheduled(*edge); ready_.insert(edge).
ScheduleDirect(e) ==
  /\ depth = 0
  /\ Fresh(e)
  /\ current_use' = EdgeScheduledUse(depth, current_use, weight[e])
  /\ ready_queue' = ready_queue \cup {e}
  /\ last' = [op |-> "EdgeScheduled", edge |-> e, delayed |-> delayed, use |-> current_use]
  /\ UNCHANGED <<depth, delayed, running, finished, weight, configVars, graphVars, scanVars, planVars, auxVars>>

\* The caller takes an edge out of the ready queue and starts its command.
StartEdge(e) ==
  /\ e \in ready_queue
  /\ ready_queue' = ready_queue \ {e}
  /\ running' = running \cup {e}
  /\ last' = [op |-> "StartEdge", edge |-> e, delayed |-> delayed, use |-> current_use]
  /\ UNCHANGED <<depth, current_use, delayed, finished, weight, configVars, graphVars, scanVars, planVars, auxVars>>

\* Pool::EdgeFinished, for an edge that was admitted and has not finished.
EdgeFinished(e) ==
  /\ e \in running
  /\ current_use' = EdgeFinishedUse(depth, current_use, weight[e])
  /\ running' = running \ {e}
  /\ finished' = finished \cup {e}
  /\ last' = [op |-> "EdgeFinished", edge |-> e, delayed |-> delayed, use |-> current_use]
  /\ UNCHANGED <<depth, delayed, ready_queue, weight, configVars, graphVars, scanVars, planVars, auxVars>>

\* The edges the pool has admitted and that have not finished.
InFlight == ready_queue \cup running

RECURSIVE SumWeights(_, _)
SumWeights(S, w) ==
  IF S = {} THEN 0
  ELSE LET e == CHOOSE x \in S : TRUE IN w[e] + SumWeights(S \ {e}, w)

Init == InitPool

Next ==
  \/ \E e \in Edges : DelayEdge(e)
  \/ RetrieveReadyEdges
  \/ \E e \in Edges : ScheduleDirect(e)
  \/ \E e \in Edges : StartEdge(e)
  \/ \E e \in Edges : EdgeFinished(e)

Spec == Init /\ [][Next]_vars

\* ------------------------------------------------------------ Plan and builder driver

PlanStates == {"NotInPlan", "Want", "Ready", "InFlight", "Done"}

\* The edges that consume an output of e.
Consumers(e) == {c \in Edges : e \in deps[c]}

\* S and every edge that produces, directly or not, an input of an edge of S.
RECURSIVE InputsClosure(_, _)
InputsClosure(d, S) ==
  LET T == S \cup UNION {d[e] : e \in S}
  IN  IF T = S THEN S ELSE InputsClosure(d, T)

\* The graphs the manifest can describe: every edge consumes outputs of edges
\* declared after it (as in "build out: cat mid / build mid: cat in").
Graphs == {d \in [Edges -> SUBSET Edges] : \A e \in Edges : \A p \in d[e] : p > e}

\* Critical time: the longest path, in recorded durations, from the edge to a root.
RECURSIVE CriticalTime(_, _, _)
CriticalTime(d, dur, e) ==
  LET cs == {c \in Edges : e \in d[c]}
      up == {CriticalTime(d, dur, c) : c \in cs}
  IN  dur[e] + (IF up = {} THEN 0 ELSE CHOOSE m \in up : \A x \in up : x <= m)

\* ScheduleWork for a set of edges that became ready: a pool with a depth
\* delays them and releases what fits, a pool of depth 0 passes them through.
ScheduleBatch(d, cu, del, rq, new) ==
  IF d # 0
  THEN LET seq == InOrder(del \cup new)
           r   == RetrieveLoop(seq, 1, d, cu, weight)
           out == SeqPrefixSet(seq, r.taken)
       IN  [delayed |-> (del \cup new) \ out, ready_queue |-> rq \cup out, use |-> r.use]
  ELSE [delayed |-> del, ready_queue |-> rq \cup new,
        use |-> EdgeScheduledUse(d, cu, SumWeights(new, weight))]

\* A variant that counts every produced input, built or not.
UnreadyInputs_CountsAll(e) == Cardinality(deps[e])

\* The number of inputs of e whose producing edge has not built them yet.
UnreadyInputs(e) == Cardinality({p \in deps[e] : p \notin outputs_ready})

\* A variant that admits one command more than the configured parallelism.
CanRunMore_OffByOne == Cardinality(running) <= parallelism

\* can_run_more(): fewer commands in flight than the configured parallelism.
CanRunMore == Cardinality(running) < parallelism

\* A variant that never stops for failures.
BudgetLeft_Ignored == TRUE

\* -k N: allow N failures and then stop.
BudgetLeft == failures < failures_allowed

\* The plan still wants an edge whose outputs are not built.
MoreToDo == \E e \in Edges : want[e] # "NotInPlan" /\ e \notin outputs_ready

\* The edges FindWork may return: the first of the ready queue.
FindWorkCandidates == {e \in ready_queue : \A f \in ready_queue \ {e} : ~EdgeLess(f, e)}

\* The main loop starts a command whenever it can, before it waits.
CanStart == BudgetLeft /\ CanRunMore /\ ready_queue # {}

\* A variant that promotes a consumer one completion early.
ReachesZero_Early(n) == n - 1 <= 1

\* edge_finished promotes a consumer whose counter reaches zero.
ReachesZero(n) == n - 1 = 0

\* The state after the manifest is loaded and the dirty edges are known. The
\* edges that are up to date (outputs_ready) have all their producers up to
\* date, since a dirty input makes its consumer dirty.
InitBuild ==
  /\ depth \in {kDefaultPoolDepth, kConsolePoolDepth}
  /\ current_use = 0
  /\ delayed = {}
  /\ ready_queue = {}
  /\ running = {}
  /\ finished = {}
  /\ weight = [e \in Edges |-> 1]
  /\ last = [op |-> "init", edge |-> 0, delayed |-> {}, use |-> 0]
  /\ deps \in Graphs
  /\ critical_time = [e \in Edges |-> CriticalTime(deps, [x \in Edges |-> 1], e)]
  /\ outputs_ready \in {S \in SUBSET Edges : \A e \in S : deps[e] \subseteq S}
  /\ want = [e \in Edges |-> "NotInPlan"]
  /\ unready = [e \in Edges |-> 0]
  /\ parallelism \in 1..MaxParallelism
  /\ failures_allowed \in 1..MaxFailures
  /\ failures = 0
  /\ status = "adding"
  /\ NoScan
  /\ NoAux

\* add_target(node), node an output of edge t: insert the edges reachable from
\* t with their counters; those with no unready input are ready at once.
AddTarget(t) ==
  /\ status = "adding"
  /\ want[t] = "NotInPlan"
  /\ t \notin outputs_ready
  /\ LET new == {e \in InputsClosure(deps, {t}) : want[e] = "NotInPlan" /\ e \notin outputs_ready}
         rdy == {e \in new : UnreadyInputs(e) = 0}
         p   == ScheduleBatch(depth, current_use, delayed, ready_queue, rdy)
     IN  /\ want' = [e \in Edges |-> IF e \in rdy THEN "Ready"
                                     ELSE IF e \in new THEN "Want" ELSE want[e]]
         /\ unready' = [e \in Edges |-> IF e \in new THEN UnreadyInputs(e) ELSE unready[e]]
         /\ delayed' = p.delayed
         /\ ready_queue' = p.ready_queue
         /\ current_use' = p.use
  /\ last' = [op |-> "AddTarget", edge |-> t, delayed |-> delayed, use |-> current_use]
  /\ UNCHANGED <<depth, running, finished, weight, configVars, graphVars, scanVars, outputs_ready, failures, status, auxVars>>

\* Builder::Build is entered once the targets are added and there is work to do.
BeginBuild ==
  /\ status = "adding"
  /\ MoreToDo
  /\ status' = "building"
  /\ last' = [op |-> "Build", edge |-> 0, delayed |-> delayed, use |-> current_use]
  /\ UNCHANGED <<poolVars, configVars, graphVars, scanVars, outputs_ready, want, unready, failures, auxVars>>

\* Steps 1 and 2 of the main loop: take the first ready edge and start its command.
StartCommand ==
  /\ status = "building"
  /\ CanStart
  /\ \E e \in FindWorkCandidates :
       /\ ready_queue' = ready_queue \ {e}
       /\ running' = running \cup {e}
       /\ want' = [want EXCEPT ![e] = "InFlight"]
       /\ last' = [op |-> "StartCommand", edge |-> e, delayed |-> delayed, use |-> current_use]
  /\ UNCHANGED <<depth, current_use, delayed, finished, weight, configVars, graphVars, scanVars,
                 outputs_ready, unready, failures, status, auxVars>>

\* Steps 3 to 5: wait_one() reports the exit of e, then edge_finished(e, result).
WaitOne(e, ok) ==
  /\ status = "building"
  /\ ~CanStart
  /\ e \in running
  /\ LET cu1  == EdgeFinishedUse(depth, current_use, weight[e])
         p1   == ScheduleBatch(depth, cu1, delayed, ready_queue, {})
         dec  == IF ok THEN {c \in Consumers(e) : want[c] = "Want"} ELSE {}
         prom == {c \in dec : ReachesZero(unready[c])}
         p2   == ScheduleBatch(depth, p1.use, p1.delayed, p1.ready_queue, prom)
     IN  /\ unready' = [c \in Edges |-> IF c \in dec THEN unready[c] - 1 ELSE unready[c]]
         /\ want' = [c \in Edges |-> IF c = e THEN "Done"
                                     ELSE IF c \in prom THEN "Ready" ELSE want[c]]
         /\ delayed' = p2.delayed
         /\ ready_queue' = p2.ready_queue
         /\ current_use' = p2.use
  /\ outputs_ready' = IF ok THEN outputs_ready \cup {e} ELSE outputs_ready
  /\ failures' = IF ok THEN failures ELSE failures + 1
  /\ running' = running \ {e}
  /\ finished' = finished \cup {e}
  /\ last' = [op |-> IF ok THEN "EdgeSucceeded" ELSE "EdgeFailed", edge |-> e,
              delayed |-> delayed, use |-> current_use]
  /\ UNCHANGED <<depth, weight, configVars, graphVars, scanVars, status, auxVars>>

\* wait_one() reports an interruption: the driver stops at once.
Interrupted ==
  /\ status = "building"
  /\ ~CanStart
  /\ running # {}
  /\ status' = "interrupted"
  /\ last' = [op |-> "Interrupted", edge |-> 0, delayed |-> delayed, use |-> current_use]
  /\ UNCHANGED <<poolVars, configVars, graphVars, scanVars, outputs_ready, want, unready, failures, auxVars>>

\* Step 6: the loop ends when nothing is wanted any more, or when no command
\* can be started and none is in flight.
BuildReturns ==
  /\ status = "building"
  /\ \/ ~MoreToDo /\ status' = "success"
     \/ MoreToDo /\ ~CanStart /\ running = {} /\ status' = "failure"
  /\ last' = [op |-> "BuildReturns", edge |-> 0, delayed |-> delayed, use |-> current_use]
  /\ UNCHANGED <<poolVars, configVars, graphVars, scanVars, outputs_ready, want, unready, failures, auxVars>>

NextBuild ==
  \/ \E t \in Edges : AddTarget(t)
  \/ BeginBuild
  \/ StartCommand
  \/ \E e \in Edges, ok \in BOOLEAN : WaitOne(e, ok)
  \/ Interrupted
  \/ BuildReturns

SpecBuild == InitBuild /\ [][NextBuild]_vars

\* Builds that differ in the durations the build log records, in a pool
\* without a depth and with nothing up to date.
InitOrder ==
  /\ depth = kDefaultPoolDepth
  /\ current_use = 0
  /\ delayed = {}
  /\ ready_queue = {}
  /\ running = {}
  /\ finished = {}
  /\ weight = [e \in Edges |-> 1]
  /\ last = [op |-> "init", edge |-> 0, delayed |-> {}, use |-> 0]
  /\ deps \in Graphs
  /\ \E dur \in [Edges -> 1..MaxDuration] :
       critical_time = [e \in Edges |-> CriticalTime(deps, dur, e)]
  /\ outputs_ready = {}
  /\ want = [e \in Edges |-> "NotInPlan"]
  /\ unready = [e \in Edges |-> 0]
  /\ parallelism \in {1, MaxParallelism}
  /\ failures_allowed = 1
  /\ failures = 0
  /\ status = "adding"
  /\ NoScan
  /\ NoAux

SpecOrder == InitOrder /\ [][NextBuild]_vars

\* ------------------------------------------------------------ Dependency scan

\* The nodes of S in the order an edge lists them (by node id).
RECURSIVE NodesInOrder(_)
NodesInOrder(S) ==
  IF S = {} THEN << >>
  ELSE LET m == CHOOSE a \in S : \A b \in S : a <= b
       IN  <<m>> \o NodesInOrder(S \ {m})

\* The scan's state while it runs: Node::mtime_, the node's status, and the
\* Stat calls made.
ScanState == [mtime |-> node_mtime, status |-> node_status, stats |-> stats]

\* A variant that stats the node whether or not its mtime is known.
StatIfNecessary_Always(n, st) ==
  [st EXCEPT !.mtime[n] = disk_mtime[n], !.stats = Append(@, n)]

\* Node::StatIfNecessary: stat the node unless its mtime is already known.
StatIfNecessary(n, st) ==
  IF st.mtime[n] # -1 THEN st
  ELSE [st EXCEPT !.mtime[n] = disk_mtime[n], !.stats = Append(@, n)]

\* Node::exists: a TimeStamp of 0 means that the file does not exist.
Exists(n, st) == st.mtime[n] > 0

\* The inputs that contribute to dirtiness: all but the order-only ones.
DirtyingInputs(n) == inputs[n] \ order_only[n]

\* A variant that looks at the first input only.
AnyInputDirty_FirstOnly(n, st) ==
  DirtyingInputs(n) # {} /\ st.status[Head(NodesInOrder(DirtyingInputs(n)))] = "dirty"

\* (e): an input is dirty.
AnyInputDirty(n, st) == \E i \in DirtyingInputs(n) : st.status[i] = "dirty"

\* The newest mtime among the inputs that contribute to dirtiness.
MostRecentInput(n, st) ==
  LET ms == {st.mtime[i] : i \in DirtyingInputs(n)}
  IN  IF ms = {} THEN 0 ELSE CHOOSE m \in ms : \A x \in ms : x <= m

\* Whether the output n of an edge without dirty inputs is dirty: a phony
\* edge's iff an input is missing; another edge's iff (b) the output is
\* missing or (c) the output is older than an input. The scan is made without
\* build log and deps log, as StatTest makes it, so (a), (d), (f) do not apply.
OutputDirty(n, st) ==
  IF n \in phony
  THEN \E i \in DirtyingInputs(n) : ~Exists(i, st)
  ELSE ~Exists(n, st) \/ st.mtime[n] < MostRecentInput(n, st)

\* recompute_dirty(node): depth first over the inputs, memoized per node.
RECURSIVE RecomputeNodeDirty(_, _)
RECURSIVE VisitInputs(_, _, _)
RecomputeNodeDirty(n, st) ==
  IF st.status[n] # "unknown" THEN st
  ELSE LET s1 == StatIfNecessary(n, st)
       IN  IF n \notin generated
           THEN [s1 EXCEPT !.status[n] = IF Exists(n, s1) THEN "clean" ELSE "dirty"]
           ELSE LET s2 == VisitInputs(NodesInOrder(inputs[n]), 1, s1)
                    d  == AnyInputDirty(n, s2) \/ OutputDirty(n, s2)
                IN  [s2 EXCEPT !.status[n] = IF d THEN "dirty" ELSE "clean"]

VisitInputs(seq, i, st) ==
  IF i > Len(seq) THEN st
  ELSE VisitInputs(seq, i + 1, RecomputeNodeDirty(seq[i], st))

\* The graphs the scan is run on: every edge has one output and consumes
\* nodes declared after it; at most one edge is phony or one node is consumed
\* as an order-only input.
InitScan ==
  /\ inputs \in {f \in [Nodes -> SUBSET Nodes] : \A n \in Nodes : \A m \in f[n] : m > n}
  /\ generated = {n \in Nodes : inputs[n] # {}}
  /\ phony \in {P \in SUBSET generated : Cardinality(P) <= 1}
  /\ \E oo \in SUBSET Nodes :
       /\ Cardinality(oo) + Cardinality(phony) <= 1
       /\ order_only = [n \in Nodes |-> inputs[n] \cap oo]
  /\ disk_mtime \in [Nodes -> 0..MaxMtime]
  /\ node_mtime = [n \in Nodes |-> -1]
  /\ node_status = [n \in Nodes |-> "unknown"]
  /\ stats = << >>
  /\ depth = kDefaultPoolDepth
  /\ current_use = 0
  /\ delayed = {}
  /\ ready_queue = {}
  /\ running = {}
  /\ finished = {}
  /\ weight = [e \in Edges |-> 1]
  /\ last = [op |-> "init", edge |-> 0, delayed |-> {}, use |-> 0]
  /\ critical_time = [e \in Edges |-> 0]
  /\ deps = [e \in Edges |-> {}]
  /\ outputs_ready = {}
  /\ want = [e \in Edges |-> "NotInPlan"]
  /\ unready = [e \in Edges |-> 0]
  /\ parallelism = 1
  /\ failures_allowed = 1
  /\ failures = 0
  /\ status = "scan"
  /\ NoAux

\* DependencyScan::RecomputeDirty(node), on a graph not scanned before.
RecomputeDirty(n) ==
  /\ \A m \in Nodes : node_status[m] = "unknown"
  /\ LET st == RecomputeNodeDirty(n, ScanState)
     IN  /\ node_mtime' = st.mtime
         /\ node_status' = st.status
         /\ stats' = st.stats
  /\ last' = [op |-> "RecomputeDirty", edge |-> n, delayed |-> {}, use |-> 0,
              stats |-> stats]
  /\ UNCHANGED <<poolVars, configVars, planVars, graphVars, auxVars>>

NextScan == \E n \in Nodes : RecomputeDirty(n)

SpecScan == InitScan /\ [][NextScan]_vars

\* Node::Stat, as StatTest calls it on the target before the scan: the node
\* is statted whatever is known of it.
NodeStat(n) ==
  /\ stats = << >>
  /\ node_mtime' = [node_mtime EXCEPT ![n] = disk_mtime[n]]
  /\ stats' = Append(stats, n)
  /\ last' = [op |-> "Stat", edge |-> n, delayed |-> {}, use |-> 0, stats |-> stats]
  /\ UNCHANGED <<node_status, poolVars, configVars, planVars, graphVars, auxVars>>

\* The graphs of StatTest: no phony edge, files that exist or do not.
InitStatTest ==
  /\ InitScan
  /\ phony = {}
  /\ \A n \in Nodes : disk_mtime[n] <= 1

NextStatTest ==
  \/ \E n \in Nodes : NodeStat(n)
  \/ \E n \in Nodes : RecomputeDirty(n)

SpecStatTest == InitStatTest /\ [][NextStatTest]_vars

\* ------------------------------------------------------------ claims: plan and builder

Building == status = "building"

\* The producers of inputs of e that have not built their outputs.
NotBuilt(e) == {p \in deps[e] : p \notin outputs_ready}

\* C5: the number of commands in flight (started, not yet reported by
\* wait_one) never exceeds the configured parallelism.
C5_AtMostParallelism == Cardinality(running) <= parallelism

\* As many commands in flight as allowed, more than one, and an edge waiting.
C5_Witness ==
  /\ Building
  /\ parallelism >= 2
  /\ Cardinality(running) = parallelism
  /\ ready_queue # {}

StepAllowed(e, shortcut) ==
  LET a == want[e]
      b == want'[e]
  IN  \/ b = a
      \/ a = "NotInPlan" /\ b = "Want" /\ status = "adding"
           /\ (shortcut => NotBuilt(e) # {})
      \/ shortcut /\ a = "NotInPlan" /\ b = "Ready" /\ status = "adding"
           /\ NotBuilt(e) = {}
      \/ a = "Want" /\ b = "Ready"
           /\ \E p \in deps[e] : want[p] = "InFlight" /\ want'[p] = "Done"
           /\ deps[e] \subseteq outputs_ready'
      \/ a = "Ready" /\ b = "InFlight"
           /\ e \in ready_queue /\ e \notin delayed /\ e \notin running
      \/ a = "InFlight" /\ b = "Done"
           /\ e \in running /\ e \notin running' /\ e \in finished'

FailedEdges == {e \in finished : e \notin outputs_ready}

C9_DispatchDetermined ==
  ready_queue # {} =>
    /\ Cardinality(FindWorkCandidates) = 1
    /\ \A e \in FindWorkCandidates : \A f \in ready_queue :
         /\ critical_time[f] <= critical_time[e]
         /\ (critical_time[f] = critical_time[e] => e <= f)

\* The edge just started won a tie by its id and beat an edge of a smaller
\* critical time.
C9_Witness ==
  /\ last.op = "StartCommand"
  /\ \E f \in ready_queue : critical_time[f] = critical_time[last.edge] /\ last.edge < f
  /\ \E g \in ready_queue : critical_time[g] < critical_time[last.edge]

\* ------------------------------------------------------------ claims: dependency scan

Scanned(n) == node_status[n] # "unknown"

\* The chain in -> mid -> out of StatTest.Middle: out is node 1, mid node 2,
\* in node 3, with mtimes in = 1, mid = 0 (missing), out = 1.
MissingMiddle ==
  /\ inputs[1] = {2} /\ inputs[2] = {3} /\ inputs[3] = {}
  /\ \A n \in Nodes : n > 3 => inputs[n] = {}
  /\ phony = {}
  /\ \A n \in Nodes : order_only[n] = {}
  /\ disk_mtime[3] = 1 /\ disk_mtime[2] = 0 /\ disk_mtime[1] = 1

\* What C10 says of the nodes a scan reached, apart from missing outputs.
C10_Rest ==
  /\ \A n \in Nodes : Scanned(n) =>
       /\ (n \in generated /\ (\E i \in inputs[n] \ order_only[n] : node_status[i] = "dirty")
             => node_status[n] = "dirty")
       /\ (n \notin generated /\ disk_mtime[n] > 0 => node_status[n] = "clean")
  /\ (MissingMiddle /\ Scanned(1) =>
        node_status[3] = "clean" /\ node_status[2] = "dirty" /\ node_status[1] = "dirty")

\* C10 as stated: after recompute_dirty every node with a producing edge whose
\* file is missing is dirty, every node produced by an edge with a dirty
\* non-order-only input is dirty, an existing source file is clean, and the
\* chain with a missing middle gives in clean, mid dirty, out dirty.
C10_MissingOutputDirty ==
  /\ \A n \in Nodes : Scanned(n) /\ n \in generated /\ disk_mtime[n] = 0
       => node_status[n] = "dirty"
  /\ C10_Rest

\* C10, amended: the same, with the first part for a node whose producing edge
\* is not phony (a phony edge is dirty iff an input is dirty or missing).
C10_MissingOutputDirtyUnlessPhony ==
  /\ \A n \in Nodes : Scanned(n) /\ n \in generated /\ n \notin phony /\ disk_mtime[n] = 0
       => node_status[n] = "dirty"
  /\ C10_Rest

\* The scan of out in the chain with the missing middle.
C10_Witness ==
  /\ MissingMiddle
  /\ last.op = "RecomputeDirty"
  /\ last.edge = 1
  /\ stats = <<1, 2, 3>>

\* ------------------------------------------------------------ claims: pool

Retrieved == last.op = "RetrieveReadyEdges"

\* The edges the last RetrieveReadyEdges call moved to the ready queue.
Transferred == last.delayed \ delayed

\* C1: in a pool with depth > 0, current_use is the sum of the weights of the
\* admitted and unfinished edges and never exceeds depth; a pool of the
\* console pool's depth never has more than one edge in flight.
C1_PoolAccounting ==
  depth > 0 =>
    /\ current_use = SumWeights(InFlight, weight)
    /\ current_use <= depth
    /\ (depth = kConsolePoolDepth => Cardinality(InFlight) <= 1)

\* A full pool with an edge held back after another edge has finished.
C1_Witness ==
  /\ depth > 0
  /\ current_use = depth
  /\ delayed # {}
  /\ finished # {}
  /\ running # {}

\* C2: a delayed edge at the head of the delayed set that fits is released by
\* RetrieveReadyEdges; of three delayed edges of weight 1 in an idle pool of
\* depth 2 exactly two are admitted, and while the pool is full the call
\* releases nothing.
C2_HeadReleased ==
  Retrieved =>
    /\ (last.delayed # {} =>
          LET h == Head(InOrder(last.delayed))
          IN  last.use + weight[h] <= depth => h \in ready_queue /\ h \notin delayed)
    /\ (/\ depth = 2
        /\ last.use = 0
        /\ Cardinality(last.delayed) = 3
        /\ \A e \in last.delayed : weight[e] = 1
        => Cardinality(Transferred) = 2 /\ Cardinality(delayed) = 1 /\ current_use = 2)
    /\ (depth > 0 /\ last.use = depth => delayed = last.delayed)

\* The third of three weight-1 edges of a depth-2 pool, held back while two were
\* in flight, is in the ready queue after one finished and the pool was asked again.
C2_Witness ==
  /\ Retrieved
  /\ depth = 2
  /\ \A e \in 1..3 : weight[e] = 1
  /\ Cardinality(finished) = 1
  /\ last.use = 1
  /\ Cardinality(last.delayed) = 1
  /\ last.delayed \subseteq ready_queue
  /\ Cardinality(InFlight) = 2

\* C3 as stated: after RetrieveReadyEdges no edge left in the delayed set fits.
C3_NoneLeftFits ==
  Retrieved /\ depth > 0 =>
    \A e \in delayed : current_use + weight[e] > depth

\* C3, amended: RetrieveReadyEdges moves a prefix of the delayed set (in
\* iteration order) to the ready queue, accounts for the weight of each edge
\* moved, stays within depth, and stops at the first edge that does not fit:
\* when it returns the first edge left in the delayed set does not fit.
C3_PrefixUntilFirstMisfit ==
  Retrieved /\ depth > 0 =>
    LET seq == InOrder(last.delayed)
        n   == Cardinality(Transferred)
    IN  /\ Transferred = SeqPrefixSet(seq, n)
        /\ Transferred \subseteq ready_queue
        /\ current_use = last.use + SumWeights(Transferred, weight)
        /\ current_use <= depth
        /\ (delayed # {} => current_use + weight[Head(InOrder(delayed))] > depth)

\* A call that moved an edge and left another behind.
C3_Witness ==
  /\ Retrieved
  /\ depth > 0
  /\ Transferred # {}
  /\ delayed # {}
  /\ last.use > 0

\* C4: a pool of depth 0 does no admission control: current_use stays 0, no
\* edge is ever delayed, and DelayEdge is not a legal call.
C4_DepthZeroPassThrough ==
  depth = 0 =>
    /\ current_use = 0
    /\ delayed = {}
    /\ \A e \in Edges : ~ENABLED DelayEdge(e)

\* A depth-0 pool after EdgeScheduled and EdgeFinished calls, with edges in flight.
C4_Witness ==
  /\ depth = 0
  /\ finished # {}
  /\ Cardinality(InFlight) >= 2

\* ------------------------------------------------------------ Cycle detection in add_target

\* The pool, the configuration and the plan where no build is modelled.
NoBuild(st) ==
  /\ depth = kDefaultPoolDepth
  /\ current_use = 0
  /\ delayed = {}
  /\ ready_queue = {}
  /\ running = {}
  /\ finished = {}
  /\ weight = [e \in Edges |-> 1]
  /\ last = [op |-> "init", edge |-> 0, delayed |-> {}, use |-> 0]
  /\ critical_time = [e \in Edges |-> 0]
  /\ deps = [e \in Edges |-> {}]
  /\ outputs_ready = {}
  /\ want = [e \in Edges |-> "NotInPlan"]
  /\ unready = [e \in Edges |-> 0]
  /\ parallelism = 1
  /\ failures_allowed = 1
  /\ failures = 0
  /\ status = st

\* A variant that takes an edge on the stack for one already done.
EnterOutcome_InStackSkipped(m) ==
  IF m = "none" THEN "descend" ELSE "skip"

\* What entering an edge does, by its mark: an edge not seen is descended
\* into, an edge that is done is skipped, an edge on the stack is a cycle.
EnterOutcome(m) ==
  IF m = "none" THEN "descend"
  ELSE IF m = "in-stack" THEN "cycle"
  ELSE "skip"

\* The nodes on the stack, bottom first.
StackNodes == [i \in 1..Len(stack) |-> stack[i].node]

\* The cycle the error names when the edge of node n, which is on the stack,
\* is entered again: the stack from n upwards, and n again.
CyclePath(n) ==
  LET k == CHOOSE i \in 1..Len(stack) : stack[i].node = n
  IN  SubSeq(StackNodes, k, Len(stack)) \o <<n>>

\* The graphs the check is run on: every node is a source file or the one
\* output of an edge with one or two inputs, which may be any nodes.
InitCycle ==
  /\ inputs \in {f \in [Nodes -> SUBSET Nodes] : \A n \in Nodes : Cardinality(f[n]) <= 2}
  /\ generated = {n \in Nodes : inputs[n] # {}}
  /\ order_only = [n \in Nodes |-> {}]
  /\ phony = {}
  /\ disk_mtime = [n \in Nodes |-> 0]
  /\ node_mtime = [n \in Nodes |-> -1]
  /\ node_status = [n \in Nodes |-> "unknown"]
  /\ stats = << >>
  /\ NoBuild("cycle")
  /\ NoCycle
  /\ NoState
  /\ NoLog
  /\ NoMore

\* add_target(t) starts the scan of t: a source file has no edge to enter.
ScanTarget(t) ==
  /\ scan_pc = "idle"
  /\ target' = t
  /\ IF t \in generated
     THEN /\ mark' = [mark EXCEPT ![t] = "in-stack"]
          /\ stack' = <<[node |-> t, todo |-> NodesInOrder(inputs[t])]>>
          /\ scan_pc' = "scan"
     ELSE /\ scan_pc' = "ok"
          /\ UNCHANGED <<mark, stack>>
  /\ last' = [op |-> "ScanTarget", edge |-> t, delayed |-> {}, use |-> 0]
  /\ UNCHANGED <<cycle_err, planned, coreVars, graphVars, scanVars, stateVars, logVars, moreVars>>

\* The scan visits the next input of the edge on top of the stack.
VisitInput ==
  /\ scan_pc = "scan"
  /\ stack[Len(stack)].todo # << >>
  /\ LET top == stack[Len(stack)]
         i   == Head(top.todo)
         rest == [stack EXCEPT ![Len(stack)].todo = Tail(top.todo)]
         o   == IF i \in generated THEN EnterOutcome(mark[i]) ELSE "skip"
     IN  /\ o = "descend" =>
              /\ mark' = [mark EXCEPT ![i] = "in-stack"]
              /\ stack' = Append(rest, [node |-> i, todo |-> NodesInOrder(inputs[i])])
              /\ UNCHANGED <<cycle_err, scan_pc>>
         /\ o = "skip" =>
              /\ stack' = rest
              /\ UNCHANGED <<mark, cycle_err, scan_pc>>
         /\ o = "cycle" =>
              /\ cycle_err' = CyclePath(i)
              /\ scan_pc' = "error"
              /\ UNCHANGED <<mark, stack>>
         /\ last' = [op |-> "VisitInput", edge |-> i, delayed |-> {}, use |-> 0]
  /\ UNCHANGED <<target, planned, coreVars, graphVars, scanVars, stateVars, logVars, moreVars>>

\* All inputs of the edge on top of the stack are visited: the edge is done.
\* When the stack is empty the scan has succeeded and the plan takes the target.
LeaveEdge ==
  /\ scan_pc = "scan"
  /\ stack[Len(stack)].todo = << >>
  /\ mark' = [mark EXCEPT ![stack[Len(stack)].node] = "done"]
  /\ stack' = SubSeq(stack, 1, Len(stack) - 1)
  /\ IF Len(stack) = 1
     THEN scan_pc' = "ok" /\ planned' = planned \cup {target}
     ELSE UNCHANGED <<scan_pc, planned>>
  /\ last' = [op |-> "LeaveEdge", edge |-> stack[Len(stack)].node, delayed |-> {}, use |-> 0]
  /\ UNCHANGED <<target, cycle_err, coreVars, graphVars, scanVars, stateVars, logVars, moreVars>>

NextCycle ==
  \/ \E t \in Nodes : ScanTarget(t)
  \/ VisitInput
  \/ LeaveEdge

SpecCycle == InitCycle /\ [][NextCycle]_vars

\* ------------------------------------------------------------ claims: cycle detection

\* The nodes reachable from the nodes of S through inputs, S included.
RECURSIVE ReachFrom(_)
ReachFrom(S) ==
  LET T == S \cup UNION {inputs[n] : n \in S}
  IN  IF T = S THEN S ELSE ReachFrom(T)

\* n is on a dependency cycle.
OnCycle(n) == n \in ReachFrom(inputs[n])

\* A dependency cycle can be reached from the target.
CycleReachable == \E n \in ReachFrom({target}) : OnCycle(n)

\* The sequence names a cycle of the graph: it returns to its first node and
\* each node consumes the next one.
IsCycle(c) ==
  /\ Len(c) >= 2
  /\ c[1] = c[Len(c)]
  /\ \A i \in 1..(Len(c) - 1) : c[i + 1] \in inputs[c[i]]

\* C11: the scan never enters an edge that is on its stack (it does not loop);
\* add_target ends with an error exactly when a dependency cycle can be
\* reached from the target, the error names a cycle of the graph, and then
\* nothing is put into the plan; without an error none is named.
C11_CycleDetected ==
  /\ \A i, j \in 1..Len(stack) : stack[i].node = stack[j].node => i = j
  /\ \A n \in Nodes : mark[n] = "in-stack" <=> \E i \in 1..Len(stack) : stack[i].node = n
  /\ scan_pc = "error" => IsCycle(cycle_err) /\ CycleReachable /\ planned = {}
  /\ scan_pc = "ok" => ~CycleReachable /\ cycle_err = << >>
  /\ scan_pc \in {"idle", "scan"} => cycle_err = << >> /\ planned = {}

\* build a: cat b / build b: cat a, add_target(a): the error names a and b.
C11_Witness ==
  /\ inputs[1] = {2}
  /\ inputs[2] = {1}
  /\ target = 1
  /\ scan_pc = "error"
  /\ cycle_err = <<1, 2, 1>>
  /\ planned = {}

\* ------------------------------------------------------------ State: the graph (state.cc)

\* The paths the calls name.
Paths == 1..NumPaths

\* The elements of a sequence.
Elems(s) == {s[i] : i \in 1..Len(s)}

\* The positions in edges of the edges that hold path in the field, in order.
EdgesWith(edges, field, path) ==
  SelectSeq([i \in 1..Len(edges) |-> i], LAMBDA e : path \in Elems(edges[e][field]))

\* State::paths_ after the manifest's calls and a GetNode of each of the
\* other paths (the deps log's): every node with its in_edge and out_edges.
NodeTable(edges, others) ==
  LET named == UNION {Elems(edges[e].inputs) \cup Elems(edges[e].outputs) : e \in 1..Len(edges)}
  IN  [path \in named \cup others |->
         [in_edge |-> EdgesWith(edges, "outputs", path),
          out_edges |-> EdgesWith(edges, "inputs", path),
          validation_out_edges |-> << >>]]

\* The edges State::AddEdge has created, by their position in edges_.
StateEdges == 1..Len(state_edges)

\* A node as GetNode creates it.
NewNode == [in_edge |-> << >>, out_edges |-> << >>, validation_out_edges |-> << >>]

\* State::GetNode: the node table after the lookup, which creates on a miss.
GetNode(tbl, path) ==
  IF path \in DOMAIN tbl THEN tbl
  ELSE [q \in DOMAIN tbl \cup {path} |-> IF q = path THEN NewNode ELSE tbl[q]]

\* A variant that never sees the producing edge.
HasInEdge_Never(node) == FALSE

\* if (node->in_edge()) in State::AddOut.
HasInEdge(node) == node.in_edge # << >>

\* A variant that registers the output before it tests for the duplicate.
AddOutOutputs_BeforeTest(outs, path, dup) == Append(outs, path)

\* State::AddOut: the edge's outputs_ after the call.
AddOutOutputs(outs, path, dup) == IF dup THEN outs ELSE Append(outs, path)

\* A variant that forgets node->AddOutEdge(edge).
AddInPaths_NoOutEdge(tbl, e, path) == GetNode(tbl, path)

\* State::AddIn: the node table after the call.
AddInPaths(tbl, e, path) ==
  [GetNode(tbl, path) EXCEPT ![path].out_edges = Append(@, e)]

\* The call made, its result, and the graph as it was.
StateCall(op, e, path, result) ==
  [op |-> op, edge |-> e, path |-> path, result |-> result,
   paths |-> state_paths, edges |-> state_edges]

\* A State as State::State() leaves it: no nodes, no edges.
InitState ==
  /\ state_paths = << >>
  /\ state_edges = << >>
  /\ state_calls = 0
  /\ state_last = [op |-> "init"]
  /\ NoScan
  /\ NoBuild("state")
  /\ NoCycle
  /\ NoLog
  /\ NoMore

\* State::AddEdge
AddEdge ==
  /\ state_calls < MaxCalls
  /\ Len(state_edges) < MaxStateEdges
  /\ state_edges' = Append(state_edges, [inputs |-> << >>, outputs |-> << >>, validations |-> << >>])
  /\ state_calls' = state_calls + 1
  /\ state_last' = StateCall("AddEdge", Len(state_edges) + 1, 0, "ok")
  /\ UNCHANGED <<state_paths, coreVars, last, graphVars, scanVars, cycleVars, logVars, moreVars>>

\* State::GetNode, called for itself.
GetNodeCall(path) ==
  /\ state_calls < MaxCalls
  /\ state_paths' = GetNode(state_paths, path)
  /\ state_calls' = state_calls + 1
  /\ state_last' = StateCall("GetNode", 0, path, "ok")
  /\ UNCHANGED <<state_edges, coreVars, last, graphVars, scanVars, cycleVars, logVars, moreVars>>

\* State::AddIn
AddIn(e, path) ==
  /\ state_calls < MaxCalls
  /\ state_paths' = AddInPaths(state_paths, e, path)
  /\ state_edges' = [state_edges EXCEPT ![e].inputs = Append(@, path)]
  /\ state_calls' = state_calls + 1
  /\ state_last' = StateCall("AddIn", e, path, "ok")
  /\ UNCHANGED <<coreVars, last, graphVars, scanVars, cycleVars, logVars, moreVars>>

\* State::AddOut
AddOut(e, path) ==
  /\ state_calls < MaxCalls
  /\ LET tbl == GetNode(state_paths, path)
         dup == HasInEdge(tbl[path])
     IN  /\ state_paths' = IF dup THEN tbl ELSE [tbl EXCEPT ![path].in_edge = <<e>>]
         /\ state_edges' = [state_edges EXCEPT ![e].outputs = AddOutOutputs(@, path, dup)]
         /\ state_last' = StateCall("AddOut", e, path, IF dup THEN "duplicate" ELSE "ok")
  /\ state_calls' = state_calls + 1
  /\ UNCHANGED <<coreVars, last, graphVars, scanVars, cycleVars, logVars, moreVars>>

\* State::AddValidation
AddValidation(e, path) ==
  /\ state_calls < MaxCalls
  /\ state_paths' = [GetNode(state_paths, path) EXCEPT ![path].validation_out_edges = Append(@, e)]
  /\ state_edges' = [state_edges EXCEPT ![e].validations = Append(@, path)]
  /\ state_calls' = state_calls + 1
  /\ state_last' = StateCall("AddValidation", e, path, "ok")
  /\ UNCHANGED <<coreVars, last, graphVars, scanVars, cycleVars, logVars, moreVars>>

\* A variant that takes every output for a root.
IsRoot_AnyOutput(node) == TRUE

\* if (output->out_edges().empty()) in State::RootNodes.
IsRoot(node) == node.out_edges = << >>

\* The loop of State::RootNodes over the outputs of an edge, from output i on.
RECURSIVE RootOutputs(_, _, _)
RootOutputs(tbl, outs, i) ==
  IF i > Len(outs) THEN << >>
  ELSE (IF IsRoot(tbl[outs[i]]) THEN <<outs[i]>> ELSE << >>) \o RootOutputs(tbl, outs, i + 1)

\* State::RootNodes: the nodes it returns, from edge e on.
RECURSIVE RootNodes(_, _, _)
RootNodes(tbl, edges, e) ==
  IF e > Len(edges) THEN << >>
  ELSE RootOutputs(tbl, edges[e].outputs, 1) \o RootNodes(tbl, edges, e + 1)

\* State::RootNodes, called; err is set when there are edges but no root.
RootNodesCall ==
  /\ state_calls < MaxCalls
  /\ LET nodes == RootNodes(state_paths, state_edges, 1)
     IN  state_last' = [op |-> "RootNodes", edge |-> 0, path |-> 0,
                        result |-> IF state_edges # << >> /\ nodes = << >> THEN "error" ELSE "ok",
                        paths |-> state_paths, edges |-> state_edges, nodes |-> nodes]
  /\ state_calls' = state_calls + 1
  /\ UNCHANGED <<state_paths, state_edges, coreVars, last, graphVars, scanVars, cycleVars, logVars, moreVars>>

NextState ==
  \/ AddEdge
  \/ \E path \in Paths : GetNodeCall(path)
  \/ \E e \in StateEdges, path \in Paths : AddIn(e, path)
  \/ \E e \in StateEdges, path \in Paths : AddOut(e, path)
  \/ \E e \in StateEdges, path \in Paths : AddValidation(e, path)
  \/ RootNodesCall

SpecState == InitState /\ [][NextState]_vars

\* ------------------------------------------------------------ State: Reset

\* The graph of the builds that Reset follows: a source, an edge that makes
\* "a" of it, and an edge that makes "b" of "a".
ResetEdges ==
  << [inputs |-> <<"src">>, outputs |-> <<"a">>, validations |-> << >>],
     [inputs |-> <<"a">>, outputs |-> <<"b">>, validations |-> << >>] >>

\* A node with the state of a build: its status is unknown, clean or dirty.
WithStatus(node, st) ==
  [in_edge |-> node.in_edge, out_edges |-> node.out_edges,
   validation_out_edges |-> node.validation_out_edges, status |-> st]

\* An edge with the state of a build.
WithFlags(edge, ready, loaded, m) ==
  [inputs |-> edge.inputs, outputs |-> edge.outputs, validations |-> edge.validations,
   outputs_ready |-> ready, deps_loaded |-> loaded, mark |-> m]

\* Node::ResetState
ResetState(node) == [node EXCEPT !.status = "unknown"]

\* A variant that leaves deps_loaded_ as it is.
ResetEdge_KeepsDepsLoaded(edge) == [edge EXCEPT !.outputs_ready = FALSE, !.mark = "none"]

\* The body of the loop of State::Reset over edges_.
ResetEdge(edge) ==
  [edge EXCEPT !.outputs_ready = FALSE, !.deps_loaded = FALSE, !.mark = "none"]

resetFrame == <<state_calls, coreVars, last, graphVars, scanVars, cycleVars, logVars, moreVars>>

\* The graph as the manifest's calls leave it, before any build.
InitReset ==
  /\ state_edges = << >> \o [e \in 1..Len(ResetEdges) |-> WithFlags(ResetEdges[e], FALSE, FALSE, "none")]
  /\ state_paths = LET tbl == NodeTable(ResetEdges, {})
                   IN  [path \in DOMAIN tbl |-> WithStatus(tbl[path], "unknown")]
  /\ state_calls = 0
  /\ state_last = [op |-> "init"]
  /\ NoScan
  /\ NoBuild("reset")
  /\ NoCycle
  /\ NoLog
  /\ NoMore

\* The dependency scan stats a node and finds it clean or dirty.
ScanSetsStatus(path, st) ==
  /\ state_paths' = [state_paths EXCEPT ![path].status = st]
  /\ state_last' = [op |-> "build"]
  /\ UNCHANGED <<state_edges, resetFrame>>

\* The dependency scan enters or leaves an edge, or loads its deps; the scan
\* or the plan finds the edge's outputs ready.
BuildSetsEdge(e, ready, loaded, m) ==
  /\ state_edges' = [state_edges EXCEPT ![e] = WithFlags(@, ready, loaded, m)]
  /\ state_last' = [op |-> "build"]
  /\ UNCHANGED <<state_paths, resetFrame>>

\* State::Reset
State_Reset ==
  /\ state_paths' = [path \in DOMAIN state_paths |-> ResetState(state_paths[path])]
  /\ state_edges' = << >> \o [e \in StateEdges |-> ResetEdge(state_edges[e])]
  /\ state_last' = [op |-> "Reset", paths |-> state_paths, edges |-> state_edges]
  /\ UNCHANGED resetFrame

NextReset ==
  \/ \E path \in DOMAIN state_paths, st \in {"clean", "dirty"} : ScanSetsStatus(path, st)
  \/ \E e \in StateEdges, ready \in BOOLEAN, loaded \in BOOLEAN, m \in {"none", "in-stack", "done"} :
       BuildSetsEdge(e, ready, loaded, m)
  \/ State_Reset

SpecReset == InitReset /\ [][NextReset]_vars

\* ------------------------------------------------------------ claims: the graph

\* C12 (P1): for every edge e and every node n in e.outputs, n.in_edge == e.
C12_OutputsHaveInEdge ==
  \A e \in StateEdges : \A n \in Elems(state_edges[e].outputs) :
    n \in DOMAIN state_paths /\ state_paths[n].in_edge = <<e>>

\* An edge has two outputs, after a call that tried to give one of them to
\* another edge.
C12_Witness ==
  /\ \E e \in StateEdges : Len(state_edges[e].outputs) = 2
  /\ state_last.op = "AddOut"
  /\ state_last.result = "duplicate"
  /\ state_edges[state_last.edge].outputs = << >>

\* C13 (P2): for every edge e and every node n in e.inputs, e is in n.out_edges.
C13_InputsHaveOutEdge ==
  \A e \in StateEdges : \A n \in Elems(state_edges[e].inputs) :
    n \in DOMAIN state_paths /\ e \in Elems(state_paths[n].out_edges)

\* A node is an input of two edges, one of which also produces a node.
C13_Witness ==
  \E n \in DOMAIN state_paths :
    /\ Cardinality(Elems(state_paths[n].out_edges)) = 2
    /\ \E e \in StateEdges : state_edges[e].outputs # << >> /\ n \in Elems(state_edges[e].inputs)

\* The number of positions of the sequence s that hold x.
Count(s, x) == Cardinality({i \in 1..Len(s) : s[i] = x})

\* C14: add_out reports duplicate exactly when an edge already produces the
\* node at the path; then in_edge, the calling edge's outputs and the node
\* table are as they were; and no node is produced by more than one edge.
C14_DuplicateOutput ==
  /\ state_last.op = "AddOut" =>
       LET had == state_last.path \in DOMAIN state_last.paths
                    /\ state_last.paths[state_last.path].in_edge # << >>
       IN  /\ state_last.result = "duplicate" <=> had
           /\ had => /\ state_paths = state_last.paths
                     /\ state_edges = state_last.edges
  /\ \A n \in Paths :
       LET producing == {e \in StateEdges : n \in Elems(state_edges[e].outputs)}
       IN  /\ Cardinality(producing) <= 1
           /\ \A e \in producing : Count(state_edges[e].outputs, n) = 1

\* An edge that produces a node asked for an output that another edge
\* produces already.
C14_Witness ==
  /\ state_last.op = "AddOut"
  /\ state_last.result = "duplicate"
  /\ state_paths[state_last.path].in_edge # <<state_last.edge>>
  /\ Len(state_edges[state_last.edge].outputs) = 1

\* ------------------------------------------------------------ Build log (build_log.cc): text

\* A text is a sequence of characters. A file is the sequence of its lines,
\* each without the newline that ends it, and the characters after the last
\* newline (tail): the file "x\ny" has lines <<x>> and tail y.

\* The field separator of a log line.
kFieldSeparator == "\t"

\* kFileSignature up to its %d: "# ninja log v", taken as one character.
kFileSignature == "# ninja log v"

\* The digits of the bases 10 and 16, as printf writes them.
HexDigits == <<"0", "1", "2", "3", "4", "5", "6", "7", "8", "9", "a", "b", "c", "d", "e", "f">>

IsDigit(c, base) == \E i \in 1..base : HexDigits[i] = c

DigitValue(c) == (CHOOSE i \in 1..16 : HexDigits[i] = c) - 1

\* printf of a number that is not negative, in the base.
RECURSIVE FormatNat(_, _)
FormatNat(n, base) ==
  IF n < base THEN <<HexDigits[n + 1]>>
  ELSE FormatNat(n \div base, base) \o <<HexDigits[(n % base) + 1]>>

\* printf("%d") and printf("%" PRId64) for base 10, printf("%" PRIx64) for
\* base 16 (whose argument is unsigned).
FormatInt(n, base) ==
  IF n < 0 THEN <<"-">> \o FormatNat(0 - n, base) ELSE FormatNat(n, base)

\* The value of the digits of s from position i up to the first character
\* that is not a digit of the base.
RECURSIVE ParseDigits(_, _, _, _)
ParseDigits(s, i, base, acc) ==
  IF i > Len(s) \/ ~IsDigit(s[i], base) THEN acc
  ELSE ParseDigits(s, i + 1, base, acc * base + DigitValue(s[i]))

\* The first position from i on that does not hold white space.
RECURSIVE SkipSpace(_, _)
SkipSpace(s, i) ==
  IF i <= Len(s) /\ s[i] = kFieldSeparator THEN SkipSpace(s, i + 1) ELSE i

\* atoi, strtoll(.., 10) and strtoull(.., 16): white space, a sign, digits;
\* 0 when there is no digit.
ParseInt(s, base) ==
  LET i == SkipSpace(s, 1)
  IN  IF i <= Len(s) /\ s[i] = "-" THEN 0 - ParseDigits(s, i + 1, base, 0)
      ELSE ParseDigits(s, i, base, 0)

\* sscanf(line_start, kFileSignature, &log_version): the version when the
\* text starts with the signature, else log_version stays 0.
SscanfVersion(s) ==
  IF s # << >> /\ Head(s) = kFileSignature THEN ParseInt(Tail(s), 10) ELSE 0

\* LogEntry::HashCommand: the hash is taken as the sum of the positions that
\* the characters would have among the digits, in 4 bits.
RECURSIVE HashCommand(_)
HashCommand(s) ==
  IF s = << >> THEN 0
  ELSE ((IF IsDigit(Head(s), 16) THEN DigitValue(Head(s)) ELSE 7) + 3 * HashCommand(Tail(s))) % 16

\* memchr(start, kFieldSeparator, line_end - start): the position of the
\* first separator from position i on, 0 when there is none.
RECURSIVE FindSeparator(_, _)
FindSeparator(s, i) ==
  IF i > Len(s) THEN 0
  ELSE IF s[i] = kFieldSeparator THEN i
  ELSE FindSeparator(s, i + 1)

\* A variant that writes the end time before the start time.
WriteEntry_TimesSwapped(entry) ==
  FormatInt(entry.end_time, 10) \o <<kFieldSeparator>> \o
  FormatInt(entry.start_time, 10) \o <<kFieldSeparator>> \o
  FormatInt(entry.mtime, 10) \o <<kFieldSeparator>> \o
  entry.output \o <<kFieldSeparator>> \o
  FormatInt(entry.command_hash, 16)

\* BuildLog::WriteEntry: the line written, without its newline.
WriteEntry(entry) ==
  FormatInt(entry.start_time, 10) \o <<kFieldSeparator>> \o
  FormatInt(entry.end_time, 10) \o <<kFieldSeparator>> \o
  FormatInt(entry.mtime, 10) \o <<kFieldSeparator>> \o
  entry.output \o <<kFieldSeparator>> \o
  FormatInt(entry.command_hash, 16)

\* fprintf(f, kFileSignature, kCurrentVersion), without its newline.
SignatureLine == <<kFileSignature>> \o FormatInt(kCurrentVersion, 10)

\* A variant that takes a line with three separators for a record without
\* command hash.
ParseLine_ThreeSeparators(s, log_version) ==
  LET t1 == FindSeparator(s, 1)
      t2 == IF t1 = 0 THEN 0 ELSE FindSeparator(s, t1 + 1)
      t3 == IF t2 = 0 THEN 0 ELSE FindSeparator(s, t2 + 1)
      t4 == IF t3 = 0 THEN 0 ELSE FindSeparator(s, t3 + 1)
      stop == IF t4 = 0 THEN Len(s) + 1 ELSE t4
      rest == SubSeq(s, stop + 1, Len(s))
  IN  IF t3 = 0 THEN [skip |-> TRUE]
      ELSE [skip |-> FALSE,
            output |-> SubSeq(s, t3 + 1, stop - 1),
            start_time |-> ParseInt(SubSeq(s, 1, t1 - 1), 10),
            end_time |-> ParseInt(SubSeq(s, t1 + 1, t2 - 1), 10),
            mtime |-> ParseInt(SubSeq(s, t2 + 1, t3 - 1), 10),
            command_hash |-> IF log_version >= 5 THEN ParseInt(rest, 16)
                             ELSE HashCommand(rest)]

\* A line of the log, parsed as the loop of BuildLog::Load does: a line with
\* fewer than four separators is skipped; a log of version 5 holds the
\* command hash, an older one the command.
ParseLine(s, log_version) ==
  LET t1 == FindSeparator(s, 1)
      t2 == IF t1 = 0 THEN 0 ELSE FindSeparator(s, t1 + 1)
      t3 == IF t2 = 0 THEN 0 ELSE FindSeparator(s, t2 + 1)
      t4 == IF t3 = 0 THEN 0 ELSE FindSeparator(s, t3 + 1)
      rest == SubSeq(s, t4 + 1, Len(s))
  IN  IF t4 = 0 THEN [skip |-> TRUE]
      ELSE [skip |-> FALSE,
            output |-> SubSeq(s, t3 + 1, t4 - 1),
            start_time |-> ParseInt(SubSeq(s, 1, t1 - 1), 10),
            end_time |-> ParseInt(SubSeq(s, t1 + 1, t2 - 1), 10),
            mtime |-> ParseInt(SubSeq(s, t2 + 1, t3 - 1), 10),
            command_hash |-> IF log_version >= 5 THEN ParseInt(rest, 16)
                             ELSE HashCommand(rest)]

\* entries_ with the entry of the output set or replaced.
SetEntry(es, e) ==
  [o \in DOMAIN es \cup {e.output} |-> IF o = e.output THEN e ELSE es[o]]

\* ------------------------------------------------------------ Build log: Load

\* The name of the log file.
LogPath == "log"

\* The entry that a parsed line sets.
LineEntry(r) ==
  [output |-> r.output, start_time |-> r.start_time, end_time |-> r.end_time,
   mtime |-> r.mtime, command_hash |-> r.command_hash]

\* A variant that keeps the first record of an output instead of the last.
LastRecord_First(parsed, o) ==
  CHOOSE i \in 1..Len(parsed) :
    /\ ~parsed[i].skip /\ parsed[i].output = o
    /\ \A j \in 1..(i - 1) : parsed[j].skip \/ parsed[j].output # o

\* The loop of BuildLog::Load sets the entry of an output from each record
\* of it in turn: the entry is left as the last record sets it.
LastRecord(parsed, o) ==
  CHOOSE i \in 1..Len(parsed) :
    /\ ~parsed[i].skip /\ parsed[i].output = o
    /\ \A j \in (i + 1)..Len(parsed) : parsed[j].skip \/ parsed[j].output # o

\* The loop of BuildLog::Load over the lines that end in a newline, for a
\* BuildLog without entries: entries_, unique_entry_count (one for each
\* output found for the first time) and total_entry_count (one for each line
\* not skipped).
LoadLines(lines, log_version) ==
  LET parsed == << >> \o [i \in 1..Len(lines) |-> ParseLine(lines[i], log_version)]
      recs == {i \in 1..Len(lines) : ~parsed[i].skip}
      outs == {parsed[i].output : i \in recs}
  IN  [entries |-> [o \in outs |-> LineEntry(parsed[LastRecord(parsed, o)])],
       unique  |-> Cardinality(outs),
       total   |-> Cardinality(recs)]

\* A variant that takes version 3 for a supported version.
TooOld_OffByOne(log_version) == log_version < kOldestSupportedVersion - 1

\* if (log_version < kOldestSupportedVersion)
TooOld(log_version) == log_version < kOldestSupportedVersion

\* A variant that asks for one of the two conditions on the counts only.
NeedsRecompaction_EitherCount(log_version, total, unique) ==
  \/ log_version < kCurrentVersion
  \/ total > kMinCompactionEntryCount
  \/ total > unique * kCompactionRatio

\* The decision at the end of BuildLog::Load.
NeedsRecompaction(log_version, total, unique) ==
  \/ log_version < kCurrentVersion
  \/ total > kMinCompactionEntryCount /\ total > unique * kCompactionRatio

\* The version that Load reads in the file: that of the first line read.
FileVersion(f) == SscanfVersion(IF f.lines # << >> THEN f.lines[1] ELSE f.tail)

\* BuildLog::Load of the file f into a BuildLog without entries: the status,
\* entries_, needs_recompaction_, and whether the file was unlinked. The
\* version is read from the first line read, whether it ends in a newline or
\* not; the characters after the last newline are read and skipped.
LoadFile(f) ==
  LET none == [status |-> "LOAD_SUCCESS", entries |-> << >>,
               needs_recompaction |-> FALSE, unlinked |-> FALSE,
               total |-> 0, unique |-> 0]
      log_version == FileVersion(f)
      acc == LoadLines(f.lines, log_version)
  IN  IF f.lines = << >> /\ f.tail = << >> THEN none
      ELSE IF TooOld(log_version) THEN [none EXCEPT !.unlinked = TRUE]
      ELSE [status |-> "LOAD_SUCCESS", entries |-> acc.entries,
            needs_recompaction |-> NeedsRecompaction(log_version, acc.total, acc.unique),
            unlinked |-> FALSE, total |-> acc.total, unique |-> acc.unique]

\* The files without the one of the name.
Unlink(fs, name) == [n \in DOMAIN fs \ {name} |-> fs[n]]

\* The files with the content of the one of the name set.
WriteFile(fs, name, f) == [n \in DOMAIN fs \cup {name} |-> IF n = name THEN f ELSE fs[n]]

\* The call made on the build log, its result, and the state it was made in.
LogCall(op, result) ==
  [op |-> op, result |-> result, files |-> files, entries |-> entries]

\* BuildLog::Load(path) by a BuildLog just constructed. fopen fails with
\* ENOENT when there is no file, and may fail for another reason when there
\* is one.
Load(fopen_fails) ==
  /\ log_pc = "fresh"
  /\ IF LogPath \notin DOMAIN files
     THEN /\ ~fopen_fails
          /\ log_last' = LogCall("Load", "LOAD_NOT_FOUND")
          /\ UNCHANGED <<files, entries, needs_recompaction>>
     ELSE IF fopen_fails
     THEN /\ log_last' = LogCall("Load", "LOAD_ERROR")
          /\ UNCHANGED <<files, entries, needs_recompaction>>
     ELSE LET r == LoadFile(files[LogPath])
          IN  /\ entries' = r.entries
              /\ needs_recompaction' = r.needs_recompaction
              /\ files' = IF r.unlinked THEN Unlink(files, LogPath) ELSE files
              /\ log_last' = LogCall("Load", r.status)
  /\ log_pc' = IF LogPath \notin DOMAIN files THEN "not_found"
               ELSE IF fopen_fails THEN "failed" ELSE "loaded"
  /\ log_hist' = [log_hist EXCEPT
                    !.unterminated = LogPath \in DOMAIN files /\ files[LogPath].tail # << >>,
                    !.version = IF LogPath \in DOMAIN files
                                THEN FileVersion(files[LogPath]) ELSE 0,
                    !.total = IF LogPath \in DOMAIN files /\ ~fopen_fails
                              THEN LoadFile(files[LogPath]).total ELSE 0,
                    !.unique = IF LogPath \in DOMAIN files /\ ~fopen_fails
                               THEN LoadFile(files[LogPath]).unique ELSE 0]
  /\ UNCHANGED <<output_stat, manifest_outputs, log_file, log_file_path, log_caller,
                 coreVars, last, graphVars, scanVars, cycleVars, stateVars, moreVars>>

\* The output paths of the edges: "a", "b", and one with a tab in it.
OutputA == <<"a">>

OutputB == <<"b">>

OutputTab == <<"a", kFieldSeparator, "b">>

\* Lines a log may hold: three records (two for the same output) and a line
\* that is not a record.
LineCandidates ==
  { WriteEntry([output |-> OutputA, start_time |-> 0, end_time |-> 1, mtime |-> 1, command_hash |-> 10]),
    WriteEntry([output |-> OutputA, start_time |-> 1, end_time |-> 2, mtime |-> 2, command_hash |-> 11]),
    WriteEntry([output |-> OutputB, start_time |-> 0, end_time |-> 12, mtime |-> 0, command_hash |-> 171]),
    <<"a", "b">> }

\* What may follow the last newline: nothing, or the beginning of a record
\* whose write did not complete.
TailCandidates == { << >>, <<"1", kFieldSeparator, "2", kFieldSeparator, "1", kFieldSeparator, "a">> }

\* The sequences of at most n elements of S.
RECURSIVE SeqsUpTo(_, _)
SeqsUpTo(S, n) ==
  IF n = 0 THEN { << >> }
  ELSE LET shorter == SeqsUpTo(S, n - 1)
       IN  shorter \cup {Append(s, x) : s \in shorter, x \in S}

\* A first line: the signature with a version, or a line that is none.
HeaderLine(v) == IF v = 0 THEN <<"a">> ELSE <<kFileSignature>> \o FormatInt(v, 10)

\* The small log files: a first line and at most MaxLogLines lines, and
\* possibly the beginning of one more.
SmallLogFiles(versions) ==
  { [lines |-> <<HeaderLine(v)>> \o body, tail |-> tl] :
      v \in versions, body \in SeqsUpTo(LineCandidates, MaxLogLines), tl \in TailCandidates }

\* The k-th of the outputs of a long log.
LongOutput(k) == <<"a">> \o FormatInt(k, 10)

\* A long log of the version: a record for each of `unique` outputs, then
\* records for the first of them, `total` records in all.
LongLogFile(v, unique, total) ==
  [lines |-> <<HeaderLine(v)>> \o
             [i \in 1..total |->
                WriteEntry([output |-> LongOutput(IF i <= unique THEN i ELSE 1),
                            start_time |-> 0, end_time |-> 1, mtime |-> 1, command_hash |-> 10])],
   tail |-> << >>]

\* Long logs around the two thresholds of the recompaction decision.
LongLogFiles ==
  { LongLogFile(v, u, n) : v \in {kCurrentVersion, kCurrentVersion + 1},
      u \in {1, (kMinCompactionEntryCount \div kCompactionRatio),
             (kMinCompactionEntryCount \div kCompactionRatio) + 1},
      n \in (kMinCompactionEntryCount - 1)..(kMinCompactionEntryCount + 3) }

\* A log of the version with lines that are no records among its records: a
\* record, a line without separator, a record cut after its output, and a
\* record of another output.
MixedLogFile(v) ==
  [lines |-> <<HeaderLine(v),
               WriteEntry([output |-> OutputA, start_time |-> 0, end_time |-> 1, mtime |-> 1, command_hash |-> 10]),
               <<"a", "b">>,
               <<"1", kFieldSeparator, "2", kFieldSeparator, "1", kFieldSeparator, "b">>,
               WriteEntry([output |-> OutputB, start_time |-> 0, end_time |-> 12, mtime |-> 0, command_hash |-> 171])>>,
   tail |-> << >>]

\* An empty file, a file without newline, and the small, long and mixed logs
\* of the versions 3 to 6 and without version.
LoadInputs ==
  {[lines |-> << >>, tail |-> << >>], [lines |-> << >>, tail |-> SignatureLine],
   [lines |-> << >>, tail |-> <<"a">>]}
  \cup SmallLogFiles({0} \cup (kOldestSupportedVersion - 1)..(kCurrentVersion + 1))
  \cup LongLogFiles
  \cup {MixedLogFile(v) : v \in {0} \cup (kOldestSupportedVersion - 1)..(kCurrentVersion + 1)}

\* The build log of a process that has not used it yet.
FreshLog ==
  /\ entries = << >>
  /\ needs_recompaction = FALSE
  /\ log_file = FALSE
  /\ log_file_path = ""
  /\ log_pc = "fresh"
  /\ log_last = [op |-> "init"]
  /\ log_caller = ""
  /\ log_hist = [unterminated |-> FALSE, tab_recorded |-> FALSE, failed |-> FALSE,
                 records |-> 0, version |-> 0, total |-> 0, unique |-> 0]

\* A process about to load a log file, or none.
InitLoad ==
  /\ \/ files = << >>
     \/ \E f \in LoadInputs : files = WriteFile(<< >>, LogPath, f)
  /\ output_stat = << >>
  /\ manifest_outputs = {}
  /\ FreshLog
  /\ NoMore
  /\ NoScan
  /\ NoBuild("log")
  /\ NoCycle
  /\ NoState

NextLoad == \E fopen_fails \in BOOLEAN : Load(fopen_fails)

SpecLoad == InitLoad /\ [][NextLoad]_vars

\* ------------------------------------------------------------ Build log: writing

\* The name of the file that Recompact writes.
RecompactPath == "log.recompact"

\* The name of the file that Restat writes.
RestatPath == "log.restat"

\* A file without content, as fopen(.., "wb") leaves it.
EmptyFile == [lines |-> << >>, tail |-> << >>]

\* A variant that writes at the start of the file.
AppendLine_AtStart(f, text) == [lines |-> <<text>> \o f.lines, tail |-> f.tail]

\* fprintf of a line and its newline at the end of the file: the line
\* continues what follows the last newline.
AppendLine(f, text) == [lines |-> Append(f.lines, f.tail \o text), tail |-> << >>]

\* rename(from, to)
Rename(fs, from, to) == Unlink(WriteFile(fs, to, fs[from]), from)

\* A variant that writes the signature whatever the file holds.
OpenForWriteIfNeeded_AlwaysSignature(fs, lf, path, fail) ==
  IF lf \/ path = "" THEN [ok |-> TRUE, files |-> fs, log_file |-> lf]
  ELSE IF fail = "fopen" THEN [ok |-> FALSE, files |-> fs, log_file |-> FALSE]
  ELSE LET f == IF path \in DOMAIN fs THEN fs[path] ELSE EmptyFile
       IN  IF fail = "signature"
           THEN [ok |-> FALSE, files |-> WriteFile(fs, path, f), log_file |-> TRUE]
           ELSE [ok |-> TRUE, files |-> WriteFile(fs, path, AppendLine(f, SignatureLine)),
                 log_file |-> TRUE]

\* A variant that opens the log also when no path has been set.
OpenForWriteIfNeeded_WithoutPath(fs, lf, path, fail) ==
  IF lf THEN [ok |-> TRUE, files |-> fs, log_file |-> lf]
  ELSE IF fail = "fopen" THEN [ok |-> FALSE, files |-> fs, log_file |-> FALSE]
  ELSE LET f == IF LogPath \in DOMAIN fs THEN fs[LogPath] ELSE EmptyFile
       IN  IF f = EmptyFile
           THEN IF fail = "signature"
                THEN [ok |-> FALSE, files |-> WriteFile(fs, LogPath, f), log_file |-> TRUE]
                ELSE [ok |-> TRUE, files |-> WriteFile(fs, LogPath, AppendLine(f, SignatureLine)),
                      log_file |-> TRUE]
           ELSE [ok |-> TRUE, files |-> fs, log_file |-> TRUE]

\* BuildLog::OpenForWriteIfNeeded; fail names the call that fails: "fopen",
\* "signature" (the fprintf of the signature) or none.
OpenForWriteIfNeeded(fs, lf, path, fail) ==
  IF lf \/ path = "" THEN [ok |-> TRUE, files |-> fs, log_file |-> lf]
  ELSE IF fail = "fopen" THEN [ok |-> FALSE, files |-> fs, log_file |-> FALSE]
  ELSE LET f == IF path \in DOMAIN fs THEN fs[path] ELSE EmptyFile
       IN  IF f = EmptyFile
           THEN IF fail = "signature"
                THEN [ok |-> FALSE, files |-> WriteFile(fs, path, f), log_file |-> TRUE]
                ELSE [ok |-> TRUE, files |-> WriteFile(fs, path, AppendLine(f, SignatureLine)),
                      log_file |-> TRUE]
           ELSE [ok |-> TRUE, files |-> fs, log_file |-> TRUE]

\* The loop of BuildLog::RecordCommand over the outputs of the edge, from
\* output i on; fail.what names the call that fails for output fail.at
\* ("write": WriteEntry or fflush).
RECURSIVE RecordLoop(_, _, _, _, _)
RecordLoop(outs, i, rec, fail, st) ==
  IF i > Len(outs) THEN st
  ELSE LET e  == [output |-> outs[i], start_time |-> rec.start_time,
                  end_time |-> rec.end_time, mtime |-> rec.mtime,
                  command_hash |-> rec.command_hash]
           es == SetEntry(st.entries, e)
           o  == OpenForWriteIfNeeded(st.files, st.log_file, log_file_path,
                                      IF fail.at = i THEN fail.what ELSE "none")
       IN  IF ~o.ok
           THEN [entries |-> es, files |-> o.files, log_file |-> o.log_file, ok |-> FALSE]
           ELSE IF ~o.log_file
           THEN RecordLoop(outs, i + 1, rec, fail,
                  [entries |-> es, files |-> o.files, log_file |-> FALSE, ok |-> TRUE])
           ELSE IF fail.at = i /\ fail.what = "write"
           THEN [entries |-> es, files |-> o.files, log_file |-> TRUE, ok |-> FALSE]
           ELSE RecordLoop(outs, i + 1, rec, fail,
                  [entries |-> es,
                   files |-> WriteFile(o.files, LogPath,
                                       AppendLine(o.files[LogPath], WriteEntry(e))),
                   log_file |-> TRUE, ok |-> TRUE])

\* DiskInterface::Stat of an output path: 0 for a path that is not there.
Stat(path) == IF path \in DOMAIN output_stat THEN output_stat[path] ELSE 0

\* NinjaMain::IsPathDead: a path that no edge produces and that is not on
\* the disk; an error of Stat is logged and ignored.
IsPathDead(path) == path \notin manifest_outputs /\ Stat(path) = 0

\* A variant that writes the dead entries too.
LiveOutputs_All(es) == DOMAIN es

\* The outputs whose entries Recompact writes.
LiveOutputs(es) == {o \in DOMAIN es : ~IsPathDead(o)}

\* The orders in which the elements of the set S can be iterated.
Orders(S) ==
  {s \in [1..Cardinality(S) -> S] : \A i, j \in 1..Cardinality(S) : s[i] = s[j] => i = j}

\* The file after the entries of the outputs are written to it in turn.
RECURSIVE WriteEntries(_, _, _, _)
WriteEntries(f, es, order, i) ==
  IF i > Len(order) THEN f
  ELSE WriteEntries(AppendLine(f, WriteEntry(es[order[i]])), es, order, i + 1)

\* The entries of the outputs of S.
Restrict(es, S) == [o \in S |-> es[o]]

\* The edges' outputs, times and command hashes that are recorded.
RecordOutputs == {<<OutputA>>, <<OutputB>>, <<OutputA, OutputB>>, <<OutputTab>>}

RecordValues ==
  {[start_time |-> 2, end_time |-> 3, mtime |-> 3, command_hash |-> 12],
   [start_time |-> 3, end_time |-> 13, mtime |-> 4, command_hash |-> 172]}

\* The failures of a call of RecordCommand for the outputs.
RecordFailures(outs) ==
  {[at |-> 0, what |-> "none"], [at |-> 1, what |-> "fopen"], [at |-> 1, what |-> "signature"]}
  \cup {[at |-> k, what |-> "write"] : k \in 1..Len(outs)}

\* The disk and the manifest: all outputs alive and newer than recorded;
\* "a" dead; Stat fails for "a", and "b" is missing but still produced.
Environments ==
  {[stat |-> [o \in {OutputA, OutputB} |-> 3], manifest |-> {OutputA, OutputB}],
   [stat |-> [o \in {OutputA, OutputB} |-> IF o = OutputA THEN 0 ELSE 3], manifest |-> {}],
   [stat |-> [o \in {OutputA, OutputB} |-> IF o = OutputA THEN 0 - 1 ELSE 0],
    manifest |-> {OutputB}]}

\* A process about to use the build log: no file, an empty one, or a small
\* log of a supported version.
InitLog ==
  /\ \/ files = << >>
     \/ \E f \in {EmptyFile} \cup SmallLogFiles(kOldestSupportedVersion..kCurrentVersion) :
          files = WriteFile(<< >>, LogPath, f)
  /\ \E env \in Environments :
       /\ output_stat = env.stat
       /\ manifest_outputs = env.manifest
  /\ FreshLog
  /\ NoMore
  /\ NoScan
  /\ NoBuild("log")
  /\ NoCycle
  /\ NoState

\* What the build log's calls leave alone.
logFrame ==
  <<output_stat, manifest_outputs, coreVars, last, graphVars, scanVars, cycleVars, stateVars,
    moreVars>>

\* Recompact is entered: the entries and the files are remembered.
RecompactEnters(caller) ==
  /\ log_caller' = caller
  /\ log_pc' = "rc_open"
  /\ log_last' = LogCall("Recompact", "running")

\* BuildLog::OpenForWrite, as NinjaMain::OpenBuildLog calls it after Load and
\* NinjaMain::ToolRestat after Restat.
OpenForWrite ==
  /\ log_pc \in {"loaded", "not_found", "restatted"}
  /\ IF needs_recompaction
     THEN /\ RecompactEnters("OpenForWrite")
          /\ UNCHANGED log_file_path
     ELSE /\ log_file_path' = LogPath
          /\ log_pc' = "open"
          /\ log_last' = LogCall("OpenForWrite", TRUE)
          /\ UNCHANGED log_caller
  /\ UNCHANGED <<files, entries, needs_recompaction, log_file, log_hist, logFrame>>

\* NinjaMain::ToolRecompact: OpenBuildLog(recompact_only) calls Recompact
\* unless Load found no file.
ToolRecompact ==
  /\ log_pc = "loaded"
  /\ RecompactEnters("ToolRecompact")
  /\ UNCHANGED <<files, entries, needs_recompaction, log_file, log_file_path, log_hist, logFrame>>

\* Recompact returns false.
RecompactFails ==
  /\ log_pc' = "failed"
  /\ log_last' = [log_last EXCEPT !.result = "failed"]
  /\ log_caller' = ""

\* Recompact: Close(), then fopen(temp_path, "wb").
RecompactOpen(fails) ==
  /\ log_pc = "rc_open"
  /\ LET o == OpenForWriteIfNeeded(files, log_file, log_file_path, "none")
     IN  IF fails
         THEN files' = o.files /\ RecompactFails
         ELSE /\ files' = WriteFile(o.files, RecompactPath, EmptyFile)
              /\ log_pc' = "rc_header"
              /\ UNCHANGED <<log_last, log_caller>>
  /\ log_file' = FALSE
  /\ UNCHANGED <<entries, needs_recompaction, log_file_path, log_hist, logFrame>>

\* Recompact: fprintf(f, kFileSignature, kCurrentVersion).
RecompactHeader(fails) ==
  /\ log_pc = "rc_header"
  /\ IF fails
     THEN RecompactFails /\ UNCHANGED files
     ELSE /\ files' = WriteFile(files, RecompactPath,
                                AppendLine(files[RecompactPath], SignatureLine))
          /\ log_pc' = "rc_entries"
          /\ UNCHANGED <<log_last, log_caller>>
  /\ UNCHANGED <<entries, needs_recompaction, log_file, log_file_path, log_hist, logFrame>>

\* Recompact: the loop over entries_ (in the order of the map) that writes
\* the entries that are not dead, the erasure of the dead ones, and fclose.
\* A failing WriteEntry returns before anything is erased.
RecompactEntries(fails) ==
  /\ log_pc = "rc_entries"
  /\ IF fails
     THEN /\ LiveOutputs(entries) # {}
          /\ RecompactFails
          /\ UNCHANGED <<files, entries>>
     ELSE /\ \E order \in Orders(LiveOutputs(entries)) :
               files' = WriteFile(files, RecompactPath,
                                  WriteEntries(files[RecompactPath], entries, order, 1))
          /\ entries' = Restrict(entries, LiveOutputs(entries))
          /\ log_pc' = "rc_unlink"
          /\ UNCHANGED <<log_last, log_caller>>
  /\ UNCHANGED <<needs_recompaction, log_file, log_file_path, log_hist, logFrame>>

\* Recompact: unlink(path), which fails when there is no such file.
RecompactUnlink(fails) ==
  /\ log_pc = "rc_unlink"
  /\ IF fails \/ LogPath \notin DOMAIN files
     THEN RecompactFails /\ UNCHANGED files
     ELSE /\ files' = Unlink(files, LogPath)
          /\ log_pc' = "rc_rename"
          /\ UNCHANGED <<log_last, log_caller>>
  /\ UNCHANGED <<entries, needs_recompaction, log_file, log_file_path, log_hist, logFrame>>

\* Recompact: rename(temp_path, path) and return true; OpenForWrite then
\* sets log_file_path_.
RecompactRename(fails) ==
  /\ log_pc = "rc_rename"
  /\ IF fails
     THEN RecompactFails /\ UNCHANGED <<files, log_file_path>>
     ELSE /\ files' = Rename(files, RecompactPath, LogPath)
          /\ log_last' = [log_last EXCEPT !.result = "done"]
          /\ log_caller' = ""
          /\ IF log_caller = "OpenForWrite"
             THEN log_file_path' = LogPath /\ log_pc' = "open"
             ELSE log_pc' = "done" /\ UNCHANGED log_file_path
  /\ UNCHANGED <<entries, needs_recompaction, log_file, log_hist, logFrame>>

\* BuildLog::RecordCommand for an edge with the outputs outs: on a log
\* opened for writing, or in a dry run, where nothing is written.
RecordCommand(outs, rec, fail) ==
  /\ log_pc \in {"loaded", "not_found", "open", "dry"}
  /\ log_hist.records < MaxRecords
  /\ LET r == RecordLoop(outs, 1, rec, fail,
                         [entries |-> entries, files |-> files, log_file |-> log_file,
                          ok |-> TRUE])
     IN  /\ entries' = r.entries
         /\ files' = r.files
         /\ log_file' = r.log_file
         /\ log_last' = [op |-> "RecordCommand", result |-> r.ok, files |-> files,
                          entries |-> entries, outs |-> outs, rec |-> rec,
                          log_file |-> log_file, path |-> log_file_path]
         /\ log_pc' = IF ~r.ok THEN "failed"
                      ELSE IF log_pc = "open" THEN "open" ELSE "dry"
         /\ log_hist' = [log_hist EXCEPT
                           !.tab_recorded =
                              @ \/ \E i \in 1..Len(outs) : FindSeparator(outs[i], 1) # 0,
                           !.failed = @ \/ ~r.ok,
                           !.records = @ + 1]
  /\ UNCHANGED <<needs_recompaction, log_file_path, log_caller, logFrame>>

\* BuildLog::Close: the file is created even if nothing has been recorded.
CloseLog ==
  /\ log_pc \in {"open", "dry"}
  /\ LET o == OpenForWriteIfNeeded(files, log_file, log_file_path, "none")
     IN  files' = o.files
  /\ log_file' = FALSE
  /\ log_pc' = "closed"
  /\ log_last' = LogCall("Close", TRUE)
  /\ UNCHANGED <<entries, needs_recompaction, log_file_path, log_caller, log_hist, logFrame>>

NextLog ==
  \/ \E fopen_fails \in BOOLEAN : Load(fopen_fails)
  \/ OpenForWrite
  \/ ToolRecompact
  \/ \E fails \in BOOLEAN : RecompactOpen(fails)
  \/ \E fails \in BOOLEAN : RecompactHeader(fails)
  \/ \E fails \in BOOLEAN : RecompactEntries(fails)
  \/ \E fails \in BOOLEAN : RecompactUnlink(fails)
  \/ \E fails \in BOOLEAN : RecompactRename(fails)
  \/ \E outs \in RecordOutputs, rec \in RecordValues :
       \E fail \in RecordFailures(outs) : RecordCommand(outs, rec, fail)
  \/ CloseLog

SpecLog == InitLog /\ [][NextLog]_vars

\* ------------------------------------------------------------ Build log: restat

\* A variant that skips every entry when no output is named.
RestatSkips_NoEmptyCase(output, filter) == output \notin filter

\* BuildLog::Restat: an entry is skipped if outputs are named and its output
\* is none of them.
RestatSkips(output, filter) == filter # {} /\ output \notin filter

\* The loop of BuildLog::Restat over entries_, from the i-th entry of the
\* iteration on: the mtime of an entry not skipped is set to what Stat
\* returns, and the entry is written. The loop returns at a failing Stat,
\* and at the WriteEntry that fails (the fail_at-th).
RECURSIVE RestatLoop(_, _, _, _, _, _)
RestatLoop(es, f, order, i, filter, fail_at) ==
  IF i > Len(order) THEN [ok |-> TRUE, entries |-> es, file |-> f]
  ELSE LET o     == order[i]
           skip  == RestatSkips(o, filter)
           mtime == Stat(o)
           e     == IF skip THEN es[o] ELSE [es[o] EXCEPT !.mtime = mtime]
           es2   == [es EXCEPT ![o] = e]
       IN  IF ~skip /\ mtime = 0 - 1 THEN [ok |-> FALSE, entries |-> es, file |-> f]
           ELSE IF fail_at = i THEN [ok |-> FALSE, entries |-> es2, file |-> f]
           ELSE RestatLoop(es2, AppendLine(f, WriteEntry(e)), order, i + 1, filter, fail_at)

\* The calls of Restat that can fail, apart from WriteEntry and Stat.
RestatFailures == {"none", "fopen", "signature", "unlink", "rename"}

\* The outputs named on the command line of the restat tool.
RestatFilters == SUBSET {OutputA, OutputB}

\* NinjaMain::ToolRestat after a Load that found the file: BuildLog::Restat
\* for the outputs of the filter.
Restat(filter, fail, fail_at) ==
  /\ log_pc = "loaded"
  /\ fail_at \in 0..Cardinality(DOMAIN entries)
  /\ fail = "none" \/ fail_at = 0
  /\ \E order \in Orders(DOMAIN entries) :
       LET call    == [op |-> "Restat", result |-> "done", files |-> files,
                       entries |-> entries, filter |-> filter]
           failed  == [call EXCEPT !.result = "failed"]
           opened  == WriteFile(files, RestatPath, EmptyFile)
           header  == WriteFile(files, RestatPath, AppendLine(EmptyFile, SignatureLine))
           r       == RestatLoop(entries, header[RestatPath], order, 1, filter, fail_at)
           written == WriteFile(files, RestatPath, r.file)
       IN  IF fail = "fopen"
           THEN /\ files' = files /\ entries' = entries /\ log_last' = failed
           ELSE IF fail = "signature"
           THEN /\ files' = opened /\ entries' = entries /\ log_last' = failed
           ELSE IF ~r.ok
           THEN /\ files' = written /\ entries' = r.entries /\ log_last' = failed
           ELSE IF fail = "unlink" \/ LogPath \notin DOMAIN files
           THEN /\ files' = written /\ entries' = r.entries /\ log_last' = failed
           ELSE IF fail = "rename"
           THEN /\ files' = Unlink(written, LogPath) /\ entries' = r.entries
                /\ log_last' = failed
           ELSE /\ files' = Rename(Unlink(written, LogPath), RestatPath, LogPath)
                /\ entries' = r.entries
                /\ log_last' = call
  /\ log_pc' = IF log_last'.result = "done" THEN "restatted" ELSE "failed"
  /\ log_file' = FALSE
  /\ UNCHANGED <<needs_recompaction, log_file_path, log_caller, log_hist, logFrame>>

\* The restat tool about to run: no log, an empty file, or a small log of
\* version 3, 4 or 5, and the outputs on the disk.
InitRestat ==
  /\ \/ files = << >>
     \/ \E f \in {EmptyFile} \cup SmallLogFiles((kOldestSupportedVersion - 1)..kCurrentVersion) :
          files = WriteFile(<< >>, LogPath, f)
  /\ \E env \in Environments :
       /\ output_stat = env.stat
       /\ manifest_outputs = env.manifest
  /\ FreshLog
  /\ NoMore
  /\ NoScan
  /\ NoBuild("log")
  /\ NoCycle
  /\ NoState

NextRestat ==
  \/ \E fopen_fails \in BOOLEAN : Load(fopen_fails)
  \/ \E filter \in RestatFilters, fail \in RestatFailures, fail_at \in 0..(MaxLogLines + 1) :
       Restat(filter, fail, fail_at)

SpecRestat == InitRestat /\ [][NextRestat]_vars

\* ------------------------------------------------------------ Build log: every call

\* A process about to use the build log: no file, an empty one, or a small
\* log of a supported version or of the version after the current one, and
\* a disk on which one of the outputs is dead.
InitLogCalls ==
  /\ \/ files = << >>
     \/ \E f \in {EmptyFile} \cup SmallLogFiles(kOldestSupportedVersion..(kCurrentVersion + 1)) :
          files = WriteFile(<< >>, LogPath, f)
  /\ \E env \in {e \in Environments : e.manifest = {}} :
       /\ output_stat = env.stat
       /\ manifest_outputs = env.manifest
  /\ FreshLog
  /\ NoMore
  /\ NoScan
  /\ NoBuild("log")
  /\ NoCycle
  /\ NoState

\* The calls on the build log in any order that the BuildLog allows.
NextLogCalls ==
  \/ NextLog
  \/ \E filter \in RestatFilters, fail \in RestatFailures, fail_at \in 0..(MaxLogLines + 1) :
       Restat(filter, fail, fail_at)

SpecLogCalls == InitLogCalls /\ [][NextLogCalls]_vars

\* ------------------------------------------------------------ Build log: dry run

\* The logs a dry run finds: none, an empty one, one that is only a
\* signature without newline, and the mixed logs of the versions 3 to 6 and
\* without version.
DryRunLogs ==
  {EmptyFile, [lines |-> << >>, tail |-> SignatureLine]}
  \cup {MixedLogFile(v) : v \in {0} \cup (kOldestSupportedVersion - 1)..(kCurrentVersion + 1)}

\* A process about to load the build log.
InitDryRun ==
  /\ \/ files = << >>
     \/ \E f \in DryRunLogs : files = WriteFile(<< >>, LogPath, f)
  /\ output_stat = << >>
  /\ manifest_outputs = {}
  /\ FreshLog
  /\ NoMore
  /\ NoScan
  /\ NoBuild("log")
  /\ NoCycle
  /\ NoState

\* NinjaMain::OpenBuildLog with config_.dry_run calls Load and not
\* OpenForWrite; the build then records the commands and the log is closed.
NextDryRun ==
  \/ \E fopen_fails \in BOOLEAN : Load(fopen_fails)
  \/ \E outs \in RecordOutputs, rec \in RecordValues :
       \E fail \in RecordFailures(outs) : RecordCommand(outs, rec, fail)
  \/ CloseLog

SpecDryRun == InitDryRun /\ [][NextDryRun]_vars

\* ------------------------------------------------------------ claims: loading the build log

\* The fields of a line: the texts between its separators.
RECURSIVE Fields(_)
Fields(s) ==
  LET t == FindSeparator(s, 1)
  IN  IF t = 0 THEN <<s>>
      ELSE <<SubSeq(s, 1, t - 1)>> \o Fields(SubSeq(s, t + 1, Len(s)))

\* The file that the last call found at the log's path.
FileBefore == log_last.files[LogPath]

\* Load was called and could open a file that is not empty.
LoadedSomething ==
  /\ log_last.op = "Load"
  /\ log_last.result # "LOAD_ERROR"
  /\ LogPath \in DOMAIN log_last.files
  /\ FileBefore.lines # << >> \/ FileBefore.tail # << >>

\* The version that the first line of the file states, 0 when it states none.
VersionBefore ==
  SscanfVersion(IF FileBefore.lines # << >> THEN FileBefore.lines[1] ELSE FileBefore.tail)

\* The records of the file: its complete lines with at least four separators.
RecordsBefore ==
  {i \in 1..Len(FileBefore.lines) : Count(FileBefore.lines[i], kFieldSeparator) >= 4}

\* The outputs the records of the file are for.
OutputsBefore == {Fields(FileBefore.lines[i])[4] : i \in RecordsBefore}

\* C18: loading a log whose version is below 4, or whose first line is not a
\* version header, deletes the file and returns success with zero entries
\* and no recompaction pending.
C18_OldVersionReset ==
  LoadedSomething /\ VersionBefore < 4 =>
    /\ LogPath \notin DOMAIN files
    /\ log_last.result = "LOAD_SUCCESS"
    /\ entries = << >>
    /\ ~needs_recompaction

\* A log of version 3 that held records was loaded.
C18_Witness ==
  /\ LoadedSomething
  /\ VersionBefore = 3
  /\ Cardinality(RecordsBefore) >= 2
  /\ LogPath \notin DOMAIN files

\* C19: after a successful load of a log of a supported version,
\* needs_recompaction is set if and only if the version is older than the
\* current one (5), or the records are more than 100 and more than 3 times
\* the distinct outputs; loading an empty file succeeds with zero entries
\* and needs_recompaction unset.
C19_RecompactionDecision ==
  /\ LoadedSomething /\ VersionBefore >= 4 =>
       /\ log_last.result = "LOAD_SUCCESS"
       /\ LogPath \in DOMAIN files
       /\ needs_recompaction <=>
            \/ VersionBefore < 5
            \/ /\ Cardinality(RecordsBefore) > 100
               /\ Cardinality(RecordsBefore) > 3 * Cardinality(OutputsBefore)
  /\ log_last.op = "Load" /\ log_last.result # "LOAD_ERROR"
       /\ LogPath \in DOMAIN log_last.files
       /\ FileBefore.lines = << >> /\ FileBefore.tail = << >> =>
       /\ log_last.result = "LOAD_SUCCESS"
       /\ entries = << >>
       /\ ~needs_recompaction

\* A log of the current version with 102 records of 34 outputs was loaded:
\* more than 100 records, but not more than 3 times the outputs.
C19_Witness ==
  /\ LoadedSomething
  /\ VersionBefore = 5
  /\ Cardinality(RecordsBefore) = 102
  /\ Cardinality(OutputsBefore) = 34
  /\ ~needs_recompaction

\* ------------------------------------------------------------ claims: writing the build log

\* What a fresh BuildLog holds after it loads the file at the path.
LoadedEntries ==
  IF LogPath \in DOMAIN files THEN LoadFile(files[LogPath]).entries ELSE << >>

\* The log is open for writing and every RecordCommand on it succeeded.
RecordedOnOpenLog == log_pc = "open" /\ ~log_hist.failed

\* C15, as stated: after a log is loaded and any sequence of successful
\* RecordCommand calls is applied on the log opened for writing, loading the
\* file into a fresh BuildLog yields exactly the in-memory map.
C15_RoundTrip == RecordedOnOpenLog => LoadedEntries = entries

\* C15, amended: the same, provided that the loaded file does not end in an
\* unterminated line and that no recorded output path contains the field
\* separator: the file then loads to the in-memory map, which holds for each
\* output the values of the last record written for it.
C15_RoundTripOfTerminatedLog ==
  (RecordedOnOpenLog /\ ~log_hist.unterminated /\ ~log_hist.tab_recorded)
    => LoadedEntries = entries

\* A record replaced the values that the loaded log held for an output, and
\* the file holds both records.
C15_Witness ==
  /\ RecordedOnOpenLog
  /\ ~log_hist.unterminated
  /\ ~log_hist.tab_recorded
  /\ log_last.op = "RecordCommand"
  /\ \E o \in DOMAIN log_last.entries : entries[o] # log_last.entries[o]
  /\ Len(files[LogPath].lines) > Cardinality(DOMAIN entries) + 1

\* Recompact has just returned true; log_last holds the entries and the
\* files it was entered with.
RecompactDone == log_last.op = "Recompact" /\ log_last.result = "done"

\* The lines of a file after its first.
RecordLines(f) == {f.lines[i] : i \in 2..Len(f.lines)}

\* The file holds the signature and one line for each of the entries.
HoldsExactly(f, es) ==
  /\ f.lines # << >>
  /\ f.lines[1] = SignatureLine
  /\ f.tail = << >>
  /\ Len(f.lines) = 1 + Cardinality(DOMAIN es)
  /\ RecordLines(f) = {WriteEntry(es[o]) : o \in DOMAIN es}

\* C16: after Recompact, the log file and the in-memory map both contain
\* exactly the entries held before whose output path IsPathDead does not
\* report dead, each with unchanged fields, and the file loads to that map;
\* when no path is dead, the state loaded from the file equals the state
\* before the compaction.
C16_RecompactKeepsLive ==
  RecompactDone =>
    LET pre  == log_last.entries
        live == {o \in DOMAIN pre : ~IsPathDead(o)}
    IN  /\ DOMAIN entries = live
        /\ \A o \in live : entries[o] = pre[o]
        /\ LogPath \in DOMAIN files
        /\ HoldsExactly(files[LogPath], Restrict(pre, live))
        /\ LoadedEntries = entries
        /\ (live = DOMAIN pre) => LoadedEntries = pre

\* A compaction that dropped a dead entry and kept a live one.
C16_Witness ==
  /\ RecompactDone
  /\ \E o \in DOMAIN log_last.entries : IsPathDead(o)
  /\ entries # << >>

\* C17: Recompact replaces the log by an atomic rename over the original:
\* at every step of a Recompact entered with a log at the path, and after
\* it has returned, a complete build log exists at the path: the one that
\* was there or the compacted one.
C17_LogAlwaysAtPath ==
  (log_last.op = "Recompact" /\ LogPath \in DOMAIN log_last.files) =>
    /\ LogPath \in DOMAIN files
    /\ \/ files[LogPath] = log_last.files[LogPath]
       \/ HoldsExactly(files[LogPath],
                       Restrict(log_last.entries,
                                {o \in DOMAIN log_last.entries : ~IsPathDead(o)}))

\* Restat has just returned true; log_last holds the entries and the files
\* it was called with, and the outputs named.
RestatDone == log_last.op = "Restat" /\ log_last.result = "done"

\* C20: BuildLog::Restat replaces the mtime of every entry whose output is
\* in the caller's filter (of every entry when the filter is empty) with a
\* fresh stat of that output, leaves the mtime of every other entry and the
\* start, end and command hash of all entries unchanged, keeps the set of
\* entries unchanged, and writes exactly this state to the log file.
C20_RestatUpdatesMtimes ==
  RestatDone =>
    LET pre    == log_last.entries
        filter == log_last.filter
    IN  /\ DOMAIN entries = DOMAIN pre
        /\ \A o \in DOMAIN pre :
             entries[o] = IF filter = {} \/ o \in filter
                          THEN [pre[o] EXCEPT !.mtime = Stat(o)]
                          ELSE pre[o]
        /\ LogPath \in DOMAIN files
        /\ HoldsExactly(files[LogPath], entries)

\* A restat of one of two outputs that both changed on the disk: the mtime
\* of the named one is replaced and the other entry stays as it was.
C20_Witness ==
  /\ RestatDone
  /\ log_last.filter = {OutputA}
  /\ DOMAIN log_last.entries = {OutputA, OutputB}
  /\ entries[OutputA].mtime # log_last.entries[OutputA].mtime
  /\ Stat(OutputB) # entries[OutputB].mtime

\* A header line: one that starts with the signature.
IsHeader(line) == line # << >> /\ line[1] = kFileSignature

\* The log file has content.
LogNotEmpty == log_pc # "fresh" /\ LogPath \in DOMAIN files /\ files[LogPath] # EmptyFile

\* No line of the file after the first is a header line.
NoOtherHeader(f) ==
  /\ \A i \in 2..Len(f.lines) : ~IsHeader(f.lines[i])
  /\ f.lines # << >> => ~IsHeader(f.tail)

\* C21, as stated: after any sequence of Load, OpenForWrite, RecordCommand,
\* Close, Recompact and Restat, a log file that is not empty starts with
\* exactly one header line of the current version and contains no other
\* header line.
C21_OneCurrentHeader ==
  LogNotEmpty =>
    /\ files[LogPath].lines # << >>
    /\ files[LogPath].lines[1] = SignatureLine
    /\ NoOtherHeader(files[LogPath])

\* C21, amended: after any such sequence on a file that was absent, empty,
\* or a log with its header as first line and no other header line, a log
\* file that is not empty starts with exactly one header line, of the
\* current version or of the version that the file had when it was loaded,
\* and contains no other header line.
C21_OneHeader ==
  LogNotEmpty =>
    /\ files[LogPath].lines # << >>
    /\ IsHeader(files[LogPath].lines[1])
    /\ \/ files[LogPath].lines[1] = SignatureLine
       \/ /\ FileVersion(files[LogPath]) = log_hist.version
          /\ log_hist.version >= kOldestSupportedVersion
    /\ NoOtherHeader(files[LogPath])

\* Records were appended to a log that already had content, and the log was
\* closed.
C21_Witness ==
  /\ LogNotEmpty
  /\ log_pc = "closed"
  /\ log_hist.records > 0
  /\ ~log_hist.failed
  /\ log_hist.version >= kOldestSupportedVersion
  /\ Len(files[LogPath].lines) > 2

\* ------------------------------------------------------------ Status and LinePrinter

\* The edges whose start and finish the status reports: "c" uses the
\* console, "x" and "y" do not.
StatusEdges == {"c", "x", "y"}


use_console(edge) == edge = "c"

\* The widths that ioctl reports for the terminal: 0 when it fails or
\* reports no columns.
Widths == {0, 5}

\* ElideMiddle(str, width)
ElideMiddle(str, width) ==
  IF width = 0 THEN << >>
  ELSE IF width = 1 THEN <<".">>
  ELSE IF width = 2 THEN <<".", ".">>
  ELSE IF width = 3 THEN <<".", ".", ".">>
  ELSE IF Len(str) > width
       THEN LET elide_size == (width - 3) \div 2
            IN  SubSeq(str, 1, elide_size) \o <<".", ".", ".">>
                \o SubSeq(str, Len(str) - elide_size + 1, Len(str))
       ELSE str

\* What LinePrinter::Print writes when the console is not locked.
Rendered(smart_terminal, to_print, type, width) ==
  (IF smart_terminal THEN <<"\r">> ELSE << >>)
  \o (IF smart_terminal /\ type = "ELIDE"
      THEN (IF width # 0 THEN ElideMiddle(to_print, width) ELSE to_print) \o <<"ESC[K">>
      ELSE to_print \o <<"\n">>)

\* LinePrinter::Print on the printer st.p with the terminal st.t.
LinePrint(st, to_print, type, width) ==
  IF st.p.console_locked
  THEN [st EXCEPT !.p.line_buffer = to_print, !.p.line_type = type]
  ELSE [st EXCEPT !.t = @ \o Rendered(st.p.smart_terminal, to_print, type, width),
                  !.p.have_blank_line =
                     IF st.p.smart_terminal /\ type = "ELIDE" THEN FALSE ELSE @]

\* A variant that keeps only the last output while the console is locked.
PrintOrBuffer_Replace(st, data) ==
  IF st.p.console_locked
  THEN [st EXCEPT !.p.output_buffer = data]
  ELSE [st EXCEPT !.t = @ \o data]

\* LinePrinter::PrintOrBuffer
PrintOrBuffer(st, data) ==
  IF st.p.console_locked
  THEN [st EXCEPT !.p.output_buffer = @ \o data]
  ELSE [st EXCEPT !.t = @ \o data]

\* LinePrinter::PrintOnNewLine
PrintOnNewLine(st, to_print) ==
  LET s1 == IF st.p.console_locked /\ st.p.line_buffer # << >>
            THEN [st EXCEPT !.p.output_buffer = @ \o st.p.line_buffer \o <<"\n">>,
                            !.p.line_buffer = << >>]
            ELSE st
      s2 == IF ~s1.p.have_blank_line THEN PrintOrBuffer(s1, <<"\n">>) ELSE s1
      s3 == IF to_print # << >> THEN PrintOrBuffer(s2, to_print) ELSE s2
  IN  [s3 EXCEPT !.p.have_blank_line =
                    to_print = << >> \/ to_print[Len(to_print)] = "\n"]

\* LinePrinter::SetConsoleLocked
SetConsoleLocked(st, locked, width) ==
  IF locked = st.p.console_locked THEN st
  ELSE IF locked
  THEN [PrintOnNewLine(st, << >>) EXCEPT !.p.console_locked = TRUE]
  ELSE LET s1 == PrintOnNewLine([st EXCEPT !.p.console_locked = FALSE], st.p.output_buffer)
           s2 == IF s1.p.line_buffer # << >>
                 THEN LinePrint(s1, s1.p.line_buffer, s1.p.line_type, width)
                 ELSE s1
       IN  [s2 EXCEPT !.p.output_buffer = << >>, !.p.line_buffer = << >>]

\* A call on the LinePrinter applied; st.h collects the calls made while the
\* console is locked.
PrinterCall(st, call, width) ==
  LET logged == IF st.p.console_locked /\ call.op # "SetConsoleLocked"
                THEN [st EXCEPT !.h = Append(@, call)] ELSE st
  IN  IF call.op = "Print" THEN LinePrint(logged, call.text, call.type, width)
      ELSE IF call.op = "PrintOnNewLine" THEN PrintOnNewLine(logged, call.text)
      ELSE SetConsoleLocked(logged, call.locked, width)

\* The calls applied in turn.
RECURSIVE PrinterCalls(_, _, _, _)
PrinterCalls(st, calls, i, width) ==
  IF i > Len(calls) THEN st
  ELSE PrinterCalls(PrinterCall(st, calls[i], width), calls, i + 1, width)

\* Edge::GetBinding("description") and Edge::EvaluateCommand()
Description(edge) == IF use_console(edge) THEN << >> ELSE <<edge, edge>>

EvaluateCommand(edge) == <<"$", edge>>

\* StatusPrinter::FormatProgressStatus for the format "[%f/%t] ".
FormatProgressStatus(finished_edges) ==
  <<"[">> \o FormatInt(finished_edges, 10) \o <<"/">>
  \o FormatInt(Cardinality(StatusEdges), 10) \o <<"]", " ">>

\* The calls of StatusPrinter::PrintStatus on the printer.
PrintStatus(verbosity, finished_edges, edge) ==
  IF verbosity \in {"QUIET", "NO_STATUS_UPDATE"} THEN << >>
  ELSE LET force_full_command == verbosity = "VERBOSE"
           to_print == IF Description(edge) = << >> \/ force_full_command
                       THEN EvaluateCommand(edge) ELSE Description(edge)
       IN  <<[op |-> "Print", text |-> FormatProgressStatus(finished_edges) \o to_print,
              type |-> IF force_full_command THEN "FULL" ELSE "ELIDE"]>>

\* The calls of StatusPrinter::BuildEdgeStarted on the printer.
EdgeStartedCalls(pr, edge) ==
  (IF use_console(edge) \/ pr.smart_terminal
   THEN PrintStatus(pr.verbosity, pr.finished_edges, edge) ELSE << >>)
  \o (IF use_console(edge) THEN <<[op |-> "SetConsoleLocked", locked |-> TRUE]>> ELSE << >>)

\* The calls of StatusPrinter::BuildEdgeFinished on the printer; the output
\* holds no escape codes, so that it is printed as it is.
EdgeFinishedCalls(pr, edge, success, output) ==
  (IF use_console(edge) THEN <<[op |-> "SetConsoleLocked", locked |-> FALSE]>> ELSE << >>)
  \o (IF pr.verbosity = "QUIET" THEN << >>
      ELSE (IF ~use_console(edge)
            THEN PrintStatus(pr.verbosity, pr.finished_edges + 1, edge) ELSE << >>)
           \o (IF ~success
               THEN <<[op |-> "PrintOnNewLine", text |-> <<"FAILED: ", edge, " ", "\n">>],
                      [op |-> "PrintOnNewLine", text |-> EvaluateCommand(edge) \o <<"\n">>]>>
               ELSE << >>)
           \o (IF output # << >> THEN <<[op |-> "PrintOnNewLine", text |-> output]>>
               ELSE << >>))

\* How the commands end: with success or not, and with what output.
CommandResults ==
  {[success |-> TRUE, output |-> << >>], [success |-> TRUE, output |-> <<"o", "\n">>],
   [success |-> FALSE, output |-> <<"w">>]}

\* The status's variables after the calls are made.
StatusStep(pr, calls, width, op) ==
  LET before == [p |-> pr, t |-> terminal,
                 h |-> IF printer.console_locked THEN printer_hist.calls ELSE << >>]
      after  == PrinterCalls(before, calls, 1, width)
  IN  /\ printer' = after.p
      /\ terminal' = after.t
      /\ printer_hist' =
           IF ~printer.console_locked /\ after.p.console_locked
           THEN [op |-> "locked", calls |-> << >>, at_lock |-> after.t, width |-> 0]
           ELSE IF printer.console_locked /\ ~after.p.console_locked
           THEN [printer_hist EXCEPT !.op = "released", !.width = width]
           ELSE IF printer.console_locked
           THEN [printer_hist EXCEPT !.calls = after.h]
           ELSE [printer_hist EXCEPT !.op = op]

\* What the status's calls leave alone.
statusFrame ==
  <<coreVars, last, graphVars, scanVars, cycleVars, stateVars, logVars, mainVars,
    cleanVars, callVars>>

\* StatusPrinter::BuildEdgeStarted; of the edges that do not use the console,
\* "x" is the one started first.
BuildEdgeStarted(edge, width) ==
  /\ printer.pc = "building"
  /\ edge \notin printer.started
  /\ Cardinality(printer.running) < StatusParallelism
  /\ edge = "y" => "x" \in printer.started
  /\ StatusStep([printer EXCEPT !.started = @ \cup {edge}, !.running = @ \cup {edge},
                                !.started_edges = @ + 1, !.running_edges = @ + 1],
                EdgeStartedCalls(printer, edge), width, "started")
  /\ UNCHANGED statusFrame

\* StatusPrinter::BuildEdgeFinished; running_edges_ is decremented after the
\* return of the QUIET verbosity.
BuildEdgeFinished(edge, success, output, width) ==
  /\ printer.pc = "building"
  /\ edge \in printer.running
  /\ StatusStep([printer EXCEPT !.running = @ \ {edge}, !.finished_edges = @ + 1,
                                !.running_edges =
                                   IF printer.verbosity = "QUIET" THEN @ ELSE @ - 1],
                EdgeFinishedCalls(printer, edge, success, output), width, "finished")
  /\ UNCHANGED statusFrame

\* StatusPrinter::BuildLoadDyndeps when explaining.
BuildLoadDyndeps ==
  /\ printer.pc = "building"
  /\ printer.running # {}
  /\ printer.explained < 1
  /\ StatusStep([printer EXCEPT !.explained = @ + 1],
                <<[op |-> "PrintOnNewLine", text |-> << >>]>>, 0, "dyndeps")
  /\ UNCHANGED statusFrame

\* StatusPrinter::BuildFinished, also of a build that stops with edges
\* still running.
BuildFinished(width) ==
  /\ printer.pc = "building"
  /\ printer.started # {}
  /\ StatusStep([printer EXCEPT !.pc = "finished"],
                <<[op |-> "SetConsoleLocked", locked |-> FALSE],
                  [op |-> "PrintOnNewLine", text |-> << >>]>>, width, "build finished")
  /\ UNCHANGED statusFrame

\* A StatusPrinter after BuildStarted has set its counters to 0, for each
\* verbosity and kind of terminal; verbosities other than NORMAL make the
\* terminal not smart.
InitStatus ==
  /\ \E verbosity \in {"NORMAL", "QUIET", "VERBOSE", "NO_STATUS_UPDATE"}, smart \in BOOLEAN :
       printer = [pc |-> "building", verbosity |-> verbosity,
                  smart_terminal |-> smart /\ verbosity = "NORMAL",
                  have_blank_line |-> TRUE, console_locked |-> FALSE,
                  line_buffer |-> << >>, line_type |-> "FULL", output_buffer |-> << >>,
                  started |-> {}, running |-> {}, started_edges |-> 0,
                  running_edges |-> 0, finished_edges |-> 0, explained |-> 0]
  /\ terminal = << >>
  /\ printer_hist = [op |-> "init", calls |-> << >>, at_lock |-> << >>, width |-> 0]
  /\ NoScan
  /\ NoBuild("status")
  /\ NoCycle
  /\ NoState
  /\ NoLog
  /\ NoMain
  /\ NoClean
  /\ NoCall

NextStatus ==
  \/ \E edge \in StatusEdges, width \in Widths : BuildEdgeStarted(edge, width)
  \/ \E edge \in StatusEdges, result \in CommandResults, width \in Widths :
       BuildEdgeFinished(edge, result.success, result.output, width)
  \/ BuildLoadDyndeps
  \/ \E width \in Widths : BuildFinished(width)

SpecStatus == InitStatus /\ [][NextStatus]_vars

\* ------------------------------------------------------------ real_main and RunBuild (ninja.cc)

\* A variant whose loop runs once more.
CycleContinues_OneMore(cycle) == cycle <= kCycleLimit

\* The loop of real_main: after the cycle, ++cycle leaves cycle <= kCycleLimit.
CycleContinues(cycle) == cycle < kCycleLimit

\* What NinjaMain::RebuildManifest returns: true ("rebuilt"), false with
\* no error ("not_rebuilt": no node for the manifest, already up to date, or
\* cleaned by a restat), or false with an error ("error").
RebuildOutcomes == {"rebuilt", "not_rebuilt", "error"}

\* The errors of Builder::Build, as the phrases they consist of.
BuildErrors ==
  {<<"interrupted by user">>, <<"subcommand failed">>,
   <<"cannot make progress due to previous errors">>,
   <<"loading '", "x", "': ", "interrupted by user">>}

\* err.find(phrase) != std::string::npos
Finds(err, phrase) == \E i \in 1..Len(err) : err[i] = phrase

\* Builder::AlreadyUpToDate after the targets are added: no target was
\* added to the plan.
AlreadyUpToDate(added) == \A i \in 1..Len(added) : added[i] # "wanted"

\* A variant that does not tell the interruption from other failures.
RunBuildResult_NoInterrupt(collected, added, build) ==
  IF ~collected THEN 1
  ELSE IF \E i \in 1..Len(added) : added[i] = "error" THEN 1
  ELSE IF AlreadyUpToDate(added) THEN 0
  ELSE IF build # << >> THEN 1
  ELSE 0

\* NinjaMain::RunBuild: what it returns when CollectTargetsFromArgs succeeds
\* or not, AddTarget of each target adds it ("wanted"), finds it up to date
\* ("uptodate") or fails ("error"), and Build fails with the error `build`
\* (<< >>: Build succeeds).
RunBuildResult(collected, added, build) ==
  IF ~collected THEN 1
  ELSE IF \E i \in 1..Len(added) : added[i] = "error" THEN 1
  ELSE IF AlreadyUpToDate(added) THEN 0
  ELSE IF build # << >>
       THEN IF Finds(build, "interrupted by user") THEN 2 ELSE 1
  ELSE 0

\* What real_main's steps leave alone.
mainFrame ==
  <<coreVars, last, graphVars, scanVars, cycleVars, stateVars, logVars, printerVars,
    cleanVars, callVars>>

\* exit(code)
Exit(code) == main' = [main EXCEPT !.pc = "exited", !.exit_code = code]

\* real_main: a NinjaMain is made and the manifest is parsed.
ParseManifest(ok) ==
  /\ main.pc = "parse"
  /\ IF ok
     THEN main' = [main EXCEPT !.pc = "loaded", !.parses = @ + 1]
     ELSE main' = [main EXCEPT !.pc = "exited", !.exit_code = 1, !.parses = @ + 1]
  /\ UNCHANGED <<main_last, mainFrame>>

\* real_main: a tool that runs after the manifest or after the logs are
\* loaded, and exits with its result.
RunTool(result) ==
  /\ \/ main.pc = "loaded" /\ main.tool = "RUN_AFTER_LOAD"
     \/ main.pc = "logs" /\ main.tool = "RUN_AFTER_LOGS"
  /\ Exit(result)
  /\ UNCHANGED <<main_last, mainFrame>>

\* real_main: EnsureBuildDirExists, OpenBuildLog and OpenDepsLog.
OpenLogs(ok) ==
  /\ main.pc = "loaded"
  /\ main.tool # "RUN_AFTER_LOAD"
  /\ IF ok THEN main' = [main EXCEPT !.pc = "logs"] ELSE Exit(1)
  /\ UNCHANGED <<main_last, mainFrame>>

\* real_main: RebuildManifest and what follows it in the loop.
RebuildManifest(outcome) ==
  /\ main.pc = "logs"
  /\ main.tool # "RUN_AFTER_LOGS"
  /\ IF outcome = "rebuilt"
     THEN IF main.dry_run
          THEN main' = [main EXCEPT !.pc = "exited", !.exit_code = 0, !.rebuilds = @ + 1,
                                    !.rebuilt = outcome]
          ELSE IF CycleContinues(main.cycle)
          THEN main' = [main EXCEPT !.pc = "parse", !.cycle = @ + 1, !.rebuilds = @ + 1,
                                    !.rebuilt = outcome]
          ELSE main' = [main EXCEPT !.pc = "still dirty", !.cycle = @ + 1,
                                    !.rebuilds = @ + 1, !.rebuilt = outcome]
     ELSE IF outcome = "error"
     THEN main' = [main EXCEPT !.pc = "exited", !.exit_code = 1, !.rebuilt = outcome]
     ELSE main' = [main EXCEPT !.pc = "build", !.rebuilt = outcome]
  /\ UNCHANGED <<main_last, mainFrame>>

\* real_main: the primary build, and exit with its result.
RunBuild(collected, added, build) ==
  /\ main.pc = "build"
  /\ LET result == RunBuildResult(collected, added, build)
     IN  /\ main' = [main EXCEPT !.pc = "exited", !.exit_code = result, !.builds = @ + 1]
         /\ main_last' = [op |-> "RunBuild", collected |-> collected, added |-> added,
                          build |-> build, result |-> result]
  /\ UNCHANGED mainFrame

\* real_main: the loop has ended; the manifest is still dirty.
StillDirty ==
  /\ main.pc = "still dirty"
  /\ Exit(1)
  /\ UNCHANGED <<main_last, mainFrame>>

\* real_main before its loop, for each way of calling it that reaches the
\* loop.
InitMain ==
  /\ \E dry_run \in BOOLEAN, tool \in {"none", "RUN_AFTER_LOAD", "RUN_AFTER_LOGS"} :
       main = [pc |-> "parse", cycle |-> 1, dry_run |-> dry_run, tool |-> tool,
               exit_code |-> 0 - 1, parses |-> 0, rebuilds |-> 0, builds |-> 0,
               rebuilt |-> "none"]
  /\ main_last = [op |-> "init"]
  /\ NoScan
  /\ NoBuild("main")
  /\ NoCycle
  /\ NoState
  /\ NoLog
  /\ NoPrinter
  /\ NoClean
  /\ NoCall

\* What AddTarget does with each of the targets.
AddedTargets == SeqsUpTo({"wanted", "uptodate", "error"}, MaxTargets)

NextMain ==
  \/ \E ok \in BOOLEAN : ParseManifest(ok)
  \/ \E result \in {0, 1, 3} : RunTool(result)
  \/ \E ok \in BOOLEAN : OpenLogs(ok)
  \/ \E outcome \in RebuildOutcomes : RebuildManifest(outcome)
  \/ \E collected \in BOOLEAN, added \in AddedTargets, build \in BuildErrors \cup {<< >>} :
       RunBuild(collected, added, build)
  \/ StillDirty

SpecMain == InitMain /\ [][NextMain]_vars

\* ------------------------------------------------------------ Cleaner (clean.cc)

\* The graph the Cleaner is given, as the manifest's AddEdge, AddIn and AddOut
\* calls leave State::edges_: two compile edges that share a depfile, the
\* second with a response file, a generator edge, and a phony edge.
CleanEdges ==
  << [rule |-> "cc", generator |-> FALSE, inputs |-> <<"src">>, outputs |-> <<"a">>,
      validations |-> << >>, depfile |-> "d", rspfile |-> ""],
     [rule |-> "cc", generator |-> FALSE, inputs |-> <<"a", "g">>, outputs |-> <<"b">>,
      validations |-> << >>, depfile |-> "d", rspfile |-> "r"],
     [rule |-> "gen", generator |-> TRUE, inputs |-> << >>, outputs |-> <<"g">>,
      validations |-> << >>, depfile |-> "", rspfile |-> ""],
     [rule |-> "phony", generator |-> FALSE, inputs |-> <<"b">>, outputs |-> <<"p">>,
      validations |-> << >>, depfile |-> "", rspfile |-> ""] >>

\* The paths of the disk: those of the graph, the edges' depfile and response
\* file, the path of a node that no edge names, and a path that has no node.
CleanPaths == {"src", "a", "b", "g", "p", "d", "r", "orphan", "gone"}

\* What a path is on the disk: no file, a file, a file that cannot be removed,
\* or a file whose directory cannot be read, so that stat and remove fail.
\* Some paths vary, the others are files.
CleanDisks ==
  {[path \in CleanPaths |->
      CASE path = "a" -> f[1]
        [] path = "g" -> f[2]
        [] path = "p" -> f[3]
        [] path = "d" -> f[4]
        [] path = "gone" -> f[5]
        [] path = "b" -> f[6]
        [] OTHER -> "present"] :
   f \in {f \in [1..6 -> {"absent", "present", "locked", "denied"}] :
            /\ \A i \in 1..5 : f[i] \in {"absent", "present"}
            /\ f[6] # "absent"}}

\* RealDiskInterface::Stat: the mtime, 0 for a missing file, -1 on an error.
DiskStat(disk, path) ==
  CASE disk[path] = "absent" -> 0
    [] disk[path] = "denied" -> 0 - 1
    [] OTHER -> 1

\* RealDiskInterface::RemoveFile: 0 removed, 1 no such file, -1 an error.
RemoveFile(disk, path) ==
  CASE disk[path] = "present" -> 0
    [] disk[path] = "absent" -> 1
    [] OTHER -> 0 - 1

\* The disk after RemoveFile.
Removed(disk, path) ==
  IF RemoveFile(disk, path) = 0 THEN [disk EXCEPT ![path] = "absent"] ELSE disk

\* A variant that takes a stat error for a file.
FileExists_OnError(disk, path) == DiskStat(disk, path) # 0

\* Cleaner::FileExists
FileExists(disk, path) == DiskStat(disk, path) > 0

\* Cleaner::Report
Report(st) == [st EXCEPT !.cleaned_files_count_ = @ + 1]

\* A variant that forgets removed_.
IsAlreadyRemoved_Never(st, path) == FALSE

\* Cleaner::IsAlreadyRemoved
IsAlreadyRemoved(st, path) == path \in st.removed_

\* Cleaner::Remove. st holds the Cleaner's fields, the disk, and the calls of
\* RemoveFile made so far.
Remove(st, path) ==
  IF IsAlreadyRemoved(st, path) THEN st
  ELSE LET s1 == [st EXCEPT !.removed_ = @ \cup {path}]
       IN  IF s1.dry_run
           THEN IF FileExists(s1.disk, path) THEN Report(s1) ELSE s1
           ELSE LET ret == RemoveFile(s1.disk, path)
                    s2 == [s1 EXCEPT !.disk = Removed(@, path),
                                     !.calls = Append(@, [path |-> path, ret |-> ret])]
                IN  CASE ret = 0 -> Report(s2)
                      [] ret = 0 - 1 -> [s2 EXCEPT !.status_ = 1]
                      [] OTHER -> s2

\* Cleaner::RemoveEdgeFiles
RemoveEdgeFiles(st, edge) ==
  LET s1 == IF edge.depfile # "" THEN Remove(st, edge.depfile) ELSE st
  IN  IF edge.rspfile # "" THEN Remove(s1, edge.rspfile) ELSE s1

\* Edge::is_phony
is_phony(edge) == edge.rule = "phony"

\* Cleaner::Reset
Reset(st) ==
  [st EXCEPT !.status_ = 0, !.cleaned_files_count_ = 0, !.removed_ = {}, !.cleaned_ = {}]

\* for (Node* output : edge->outputs_) Remove(output->path()), from output i on.
RECURSIVE RemoveOutputs(_, _, _)
RemoveOutputs(st, outs, i) ==
  IF i > Len(outs) THEN st ELSE RemoveOutputs(Remove(st, outs[i]), outs, i + 1)

\* The edges CleanAll passes over: phony ones, and the generator's unless -g.
SkippedByCleanAll(edge, generator) ==
  is_phony(edge) \/ (~generator /\ edge.generator)

\* The loop of Cleaner::CleanAll over edges_, from edge e on.
RECURSIVE CleanAllLoop(_, _, _, _)
CleanAllLoop(st, edges, generator, e) ==
  IF e > Len(edges) THEN st
  ELSE IF SkippedByCleanAll(edges[e], generator)
       THEN CleanAllLoop(st, edges, generator, e + 1)
       ELSE CleanAllLoop(RemoveEdgeFiles(RemoveOutputs(st, edges[e].outputs, 1), edges[e]),
                         edges, generator, e + 1)

\* A variant that takes a node without a producing edge for dead, whatever
\* consumes it.
IsDeadOutput_NoInEdge(tbl, path) ==
  path \notin DOMAIN tbl \/ tbl[path].in_edge = << >>

\* The test of Cleaner::CleanDead on a build log entry's path.
IsDeadOutput(tbl, path) ==
  path \notin DOMAIN tbl \/ (tbl[path].in_edge = << >> /\ tbl[path].out_edges = << >>)

\* The loop of Cleaner::CleanDead over the build log's entries, from entry i on.
RECURSIVE CleanDeadLoop(_, _, _, _)
CleanDeadLoop(st, tbl, outputs, i) ==
  IF i > Len(outputs) THEN st
  ELSE CleanDeadLoop(IF IsDeadOutput(tbl, outputs[i]) THEN Remove(st, outputs[i]) ELSE st,
                     tbl, outputs, i + 1)

\* Cleaner::DoCleanTarget, and its loop over the inputs of the target's edge.
RECURSIVE DoCleanTarget(_, _, _, _)
RECURSIVE DoCleanInputs(_, _, _, _, _)
DoCleanTarget(st, tbl, edges, node) ==
  LET visited ==
        IF tbl[node].in_edge = << >> THEN st
        ELSE LET e == edges[tbl[node].in_edge[1]]
                 s1 == IF is_phony(e) THEN st ELSE RemoveEdgeFiles(Remove(st, node), e)
             IN  DoCleanInputs(s1, tbl, edges, e.inputs, 1)
  IN  [visited EXCEPT !.cleaned_ = @ \cup {node}]

DoCleanInputs(st, tbl, edges, ins, i) ==
  IF i > Len(ins) THEN st
  ELSE DoCleanInputs(IF ins[i] \in st.cleaned_ THEN st
                     ELSE DoCleanTarget(st, tbl, edges, ins[i]),
                     tbl, edges, ins, i + 1)

\* The loop of Cleaner::CleanTargets, from target i on. The targets are
\* canonical paths, which CanonicalizePath leaves as they are.
RECURSIVE CleanTargetsLoop(_, _, _, _, _)
CleanTargetsLoop(st, tbl, edges, targets, i) ==
  IF i > Len(targets) THEN st
  ELSE CleanTargetsLoop(
         IF targets[i] = "" \/ targets[i] \notin DOMAIN tbl
         THEN [st EXCEPT !.status_ = 1]
         ELSE DoCleanTarget(st, tbl, edges, targets[i]),
         tbl, edges, targets, i + 1)

\* The inner loop of Cleaner::DoCleanRule over the outputs of an edge.
RECURSIVE RuleOutputs(_, _, _)
RuleOutputs(st, edge, i) ==
  IF i > Len(edge.outputs) THEN st
  ELSE RuleOutputs(RemoveEdgeFiles(Remove(st, edge.outputs[i]), edge), edge, i + 1)

\* Cleaner::DoCleanRule, from edge e on.
RECURSIVE DoCleanRule(_, _, _, _)
DoCleanRule(st, edges, rule, e) ==
  IF e > Len(edges) THEN st
  ELSE DoCleanRule(IF edges[e].rule = rule THEN RuleOutputs(st, edges[e], 1) ELSE st,
                   edges, rule, e + 1)

\* bindings_.LookupRule: the rules of the manifest, and the phony rule that
\* State::State adds.
LookupRule(edges, rule) ==
  rule = "phony" \/ \E e \in 1..Len(edges) : edges[e].rule = rule

\* The loop of Cleaner::CleanRules, from rule i on.
RECURSIVE CleanRulesLoop(_, _, _, _)
CleanRulesLoop(st, edges, rules, i) ==
  IF i > Len(rules) THEN st
  ELSE CleanRulesLoop(IF LookupRule(edges, rules[i]) THEN DoCleanRule(st, edges, rules[i], 1)
                      ELSE [st EXCEPT !.status_ = 1],
                      edges, rules, i + 1)

\* The Cleaner's fields, the disk, and no call of RemoveFile yet.
CleanerState ==
  [status_ |-> cleaner.status_, cleaned_files_count_ |-> cleaner.cleaned_files_count_,
   removed_ |-> cleaner.removed_, cleaned_ |-> cleaner.cleaned_,
   dry_run |-> cleaner.dry_run, disk |-> clean_disk, calls |-> << >>]

cleanFrame ==
  <<coreVars, last, graphVars, scanVars, cycleVars, stateVars, logVars, printerVars,
    mainVars, callVars>>

\* A clean operation ends: it returns status_ and has printed the count.
CleanReturns(op, generator, args, st) ==
  /\ cleaner' = [pc |-> "done", status_ |-> st.status_,
                 cleaned_files_count_ |-> st.cleaned_files_count_,
                 removed_ |-> st.removed_, cleaned_ |-> st.cleaned_,
                 dry_run |-> st.dry_run]
  /\ clean_disk' = st.disk
  /\ clean_last' = [op |-> op, generator |-> generator, args |-> args,
                    disk |-> clean_disk, calls |-> st.calls,
                    result |-> st.status_, count |-> st.cleaned_files_count_]
  /\ UNCHANGED cleanFrame

\* Cleaner::CleanAll
CleanAll(generator) ==
  /\ cleaner.pc = "constructed"
  /\ CleanReturns("CleanAll", generator, << >>,
                  CleanAllLoop(Reset(CleanerState), state_edges, generator, 1))

\* Cleaner::CleanDead, on the outputs of the build log's entries.
CleanDead(outputs) ==
  /\ cleaner.pc = "constructed"
  /\ CleanReturns("CleanDead", FALSE, outputs,
                  CleanDeadLoop(Reset(CleanerState), state_paths, outputs, 1))

\* Cleaner::CleanTargets
CleanTargets(targets) ==
  /\ cleaner.pc = "constructed"
  /\ CleanReturns("CleanTargets", FALSE, targets,
                  CleanTargetsLoop(Reset(CleanerState), state_paths, state_edges, targets, 1))

\* Cleaner::CleanRules
CleanRules(rules) ==
  /\ cleaner.pc = "constructed"
  /\ CleanReturns("CleanRules", FALSE, rules,
                  CleanRulesLoop(Reset(CleanerState), state_edges, rules, 1))

\* The Cleaner as its constructor leaves it, on a loaded graph and a disk.
InitClean ==
  /\ \E dry_run \in BOOLEAN :
       cleaner = [pc |-> "constructed", status_ |-> 0, cleaned_files_count_ |-> 0,
                  removed_ |-> {}, cleaned_ |-> {}, dry_run |-> dry_run]
  /\ clean_disk \in CleanDisks
  /\ clean_last = [op |-> "init"]
  /\ state_edges = CleanEdges
  /\ state_paths = NodeTable(CleanEdges, {"orphan"})
  /\ state_calls = 0
  /\ state_last = [op |-> "init"]
  /\ NoScan
  /\ NoBuild("clean")
  /\ NoCycle
  /\ NoLog
  /\ NoPrinter
  /\ NoMain
  /\ NoCall

\* The outputs of the build log's entries, in the order of the table.
DeadLogs == {<<"a", "gone", "orphan", "src">>, <<"gone", "p">>, <<"b", "orphan">>, << >>}

\* The targets and the rules of the command line.
TargetLists == SeqsUpTo({"a", "b", "g", "p", "", "nope"}, MaxTargets)

RuleLists == SeqsUpTo({"cc", "gen", "phony", "nope"}, MaxTargets) \ {<< >>}

NextClean ==
  \/ \E generator \in BOOLEAN : CleanAll(generator)
  \/ \E outputs \in DeadLogs : CleanDead(outputs)
  \/ \E targets \in TargetLists \ {<< >>} : CleanTargets(targets)
  \/ \E rules \in RuleLists : CleanRules(rules)

SpecClean == InitClean /\ [][NextClean]_vars

\* ------------------------------------------------------------ Cleaner: the recursion of DoCleanTarget

\* An edge of a rule that names no depfile and no response file.
TargetEdge(rule, ins, outs) ==
  [rule |-> rule, generator |-> FALSE, inputs |-> ins, outputs |-> outs,
   validations |-> << >>, depfile |-> "", rspfile |-> ""]

\* Graphs made by AddEdge, AddIn and AddOut, which refuses only a second edge
\* for an output: a chain, a diamond, an input named twice, a phony edge
\* over a chain, two edges that depend on each other, an edge whose output is
\* its input, and a cycle below the target.
TargetGraphs ==
  { <<TargetEdge("cc", <<"src">>, <<"a">>), TargetEdge("cc", <<"a">>, <<"b">>)>>,
    <<TargetEdge("cc", <<"src">>, <<"a">>), TargetEdge("cc", <<"src">>, <<"g">>),
      TargetEdge("cc", <<"a", "g">>, <<"b">>)>>,
    <<TargetEdge("cc", <<"src">>, <<"a">>), TargetEdge("cc", <<"a", "a">>, <<"b">>)>>,
    <<TargetEdge("cc", <<"src">>, <<"a">>), TargetEdge("phony", <<"a">>, <<"b">>)>>,
    <<TargetEdge("cc", <<"b">>, <<"a">>), TargetEdge("cc", <<"a">>, <<"b">>)>>,
    <<TargetEdge("cc", <<"a">>, <<"a">>), TargetEdge("cc", <<"a">>, <<"b">>)>>,
    <<TargetEdge("cc", <<"a">>, <<"b">>), TargetEdge("cc", <<"g">>, <<"a">>),
      TargetEdge("cc", <<"a">>, <<"g">>)>> }

\* The frame on top of the stack: the call of DoCleanTarget that runs.
Top == cleaner.stack[Len(cleaner.stack)]

\* The inputs of the edge that makes the node; none for a node without edge.
InEdgeInputs(node) ==
  IF HasInEdge(state_paths[node]) THEN state_edges[state_paths[node].in_edge[1]].inputs
  ELSE << >>

\* The Cleaner's fields after st has been computed.
CleanerWith(st, pc, frames, visits) ==
  [pc |-> pc, status_ |-> st.status_, cleaned_files_count_ |-> st.cleaned_files_count_,
   removed_ |-> st.removed_, cleaned_ |-> st.cleaned_, dry_run |-> st.dry_run,
   target |-> cleaner.target, stack |-> frames, visits |-> visits]

\* DoCleanTarget(node) is called: a frame at the start of the function.
Called(frames, node) == Append(frames, [node |-> node, i |-> 0])

\* Cleaner::CleanTargets for one target that names a node: Reset, then the
\* first call of DoCleanTarget.
CleanTargetEnters(node) ==
  /\ cleaner.pc = "constructed"
  /\ node \in DOMAIN state_paths
  /\ cleaner' = [CleanerWith(Reset(CleanerState), "target", Called(<< >>, node),
                             [cleaner.visits EXCEPT ![node] = 1])
                   EXCEPT !.target = node]
  /\ clean_last' = [op |-> "CleanTargets", target |-> node, disk |-> clean_disk]
  /\ UNCHANGED <<clean_disk, cleanFrame>>

\* The start of DoCleanTarget: the target and the files of its edge are
\* removed unless the edge is phony.
DoCleanTargetRemoves ==
  /\ cleaner.pc = "target"
  /\ Top.i = 0
  /\ LET node == Top.node
         st == IF HasInEdge(state_paths[node])
                  /\ ~is_phony(state_edges[state_paths[node].in_edge[1]])
               THEN RemoveEdgeFiles(Remove(CleanerState, node),
                                    state_edges[state_paths[node].in_edge[1]])
               ELSE CleanerState
     IN  /\ cleaner' = CleanerWith(st, "target",
                                   [cleaner.stack EXCEPT ![Len(cleaner.stack)].i = 1],
                                   cleaner.visits)
         /\ clean_disk' = st.disk
  /\ UNCHANGED <<clean_last, cleanFrame>>

\* cleaned_.count(next) != 0
IsVisited(node) == node \in cleaner.cleaned_

\* A step of the loop over the inputs of the target's edge: DoCleanTarget is
\* called for an input that is not in cleaned_. The stack is exhausted at
\* MaxStackDepth calls.
DoCleanTargetInput ==
  /\ cleaner.pc = "target"
  /\ Top.i >= 1
  /\ Top.i <= Len(InEdgeInputs(Top.node))
  /\ LET next == InEdgeInputs(Top.node)[Top.i]
         frames == [cleaner.stack EXCEPT ![Len(cleaner.stack)].i = @ + 1]
     IN  cleaner' =
           IF IsVisited(next) THEN [cleaner EXCEPT !.stack = frames]
           ELSE IF Len(frames) >= MaxStackDepth
           THEN [cleaner EXCEPT !.pc = "overflow", !.visits[next] = @ + 1]
           ELSE [cleaner EXCEPT !.stack = Called(frames, next), !.visits[next] = @ + 1]
  /\ UNCHANGED <<clean_disk, clean_last, cleanFrame>>

\* The end of DoCleanTarget: the target is marked in cleaned_; the return of
\* the first call ends CleanTargets.
DoCleanTargetReturns ==
  /\ cleaner.pc = "target"
  /\ Top.i > Len(InEdgeInputs(Top.node))
  /\ cleaner' = [cleaner EXCEPT !.cleaned_ = @ \cup {Top.node},
                                !.stack = SubSeq(@, 1, Len(@) - 1),
                                !.pc = IF Len(cleaner.stack) = 1 THEN "done" ELSE "target"]
  /\ UNCHANGED <<clean_disk, clean_last, cleanFrame>>

\* The Cleaner as its constructor leaves it, on a graph and a disk that holds
\* every file.
InitCleanTarget ==
  /\ \E dry_run \in BOOLEAN :
       cleaner = [pc |-> "constructed", status_ |-> 0, cleaned_files_count_ |-> 0,
                  removed_ |-> {}, cleaned_ |-> {}, dry_run |-> dry_run,
                  target |-> "", stack |-> << >>, visits |-> [path \in CleanPaths |-> 0]]
  /\ clean_disk = [path \in CleanPaths |-> "present"]
  /\ clean_last = [op |-> "init"]
  /\ \E edges \in TargetGraphs :
       /\ state_edges = edges
       /\ state_paths = NodeTable(edges, {})
  /\ state_calls = 0
  /\ state_last = [op |-> "init"]
  /\ NoScan
  /\ NoBuild("clean")
  /\ NoCycle
  /\ NoLog
  /\ NoPrinter
  /\ NoMain
  /\ NoCall

\* The steps of the calls of DoCleanTarget.
DoCleanTargetStep ==
  \/ DoCleanTargetRemoves
  \/ DoCleanTargetInput
  \/ DoCleanTargetReturns

NextCleanTarget ==
  \/ \E node \in CleanPaths : CleanTargetEnters(node)
  \/ DoCleanTargetRemoves
  \/ DoCleanTargetInput
  \/ DoCleanTargetReturns

\* The calls of DoCleanTarget run on: a call that can take a step takes it.
SpecCleanTarget == InitCleanTarget /\ [][NextCleanTarget]_vars /\ WF_vars(DoCleanTargetStep)

\* ------------------------------------------------------------ RealDiskInterface::Stat (disk_interface.cc)

\* What stat(2) gives: -1 and an errno, or 0 and the st_mtim of the file,
\* which is before, at, or after the epoch.
OsStats ==
  {[rc |-> 0 - 1, errno |-> e, tv_sec |-> 0, tv_nsec |-> 0] :
     e \in {"ENOENT", "ENOTDIR", "EACCES", "ENAMETOOLONG"}}
  \cup {[rc |-> 0, errno |-> "", tv_sec |-> s, tv_nsec |-> n] :
          s \in {0 - 1, 0, 1}, n \in {0, 1, 999999999}}

\* The paths Stat is called on.
StatPaths == {"file", "dir/file"}

\* RealDiskInterface::Stat, on what stat(2) gives for the path: the TimeStamp
\* returned and *err, which the caller passes empty. The TimeStamp is the one
\* of the build where st_mtime is a macro (modern POSIX).
RealDiskInterface_Stat(os, path) ==
  IF os.rc < 0
  THEN IF os.errno = "ENOENT" \/ os.errno = "ENOTDIR"
       THEN [ret |-> 0, err |-> << >>]
       ELSE [ret |-> 0 - 1, err |-> <<"stat(", path, "): ", os.errno>>]
  ELSE IF os.tv_sec = 0
       THEN [ret |-> 1, err |-> << >>]
       ELSE [ret |-> os.tv_sec * kNanosPerSecond + os.tv_nsec, err |-> << >>]

callFrame ==
  <<coreVars, last, graphVars, scanVars, cycleVars, stateVars, logVars, printerVars,
    mainVars, cleanVars>>

\* A file system: what stat(2) gives for each path.
InitDiskStat ==
  /\ call_in \in [StatPaths -> OsStats]
  /\ call_last = [op |-> "init"]
  /\ NoScan
  /\ NoBuild("stat")
  /\ NoCycle
  /\ NoState
  /\ NoLog
  /\ NoPrinter
  /\ NoMain
  /\ NoClean

\* disk_.Stat(path, &err)
StatCall(path) ==
  /\ call_last' = [op |-> "Stat", path |-> path,
                   result |-> RealDiskInterface_Stat(call_in[path], path)]
  /\ UNCHANGED <<call_in, callFrame>>

NextDiskStat == \E path \in StatPaths : StatCall(path)

SpecDiskStat == InitDiskStat /\ [][NextDiskStat]_vars

\* ------------------------------------------------------------ CanonicalizePath (util.cc)

\* The characters of the paths: the separator, the dot, and a letter.
PathChars == {"/", ".", "a"}

\* The paths CanonicalizePath is called on.
InputPaths == SeqsUpTo(PathChars, MaxPathLen)

\* IsPathSeparator
IsPathSeparator(c) == c = "/"

\* The character at offset i of the buffer: the string's characters and the
\* terminating NUL that std::string keeps after them.
CharAt(buf, i) == buf[i + 1]

\* n characters copied from offset src to offset dst, which is never after src.
CopyChars(buf, src, dst, n) ==
  [i \in 1..Len(buf) |->
     IF i - 1 \in dst..(dst + n - 1) THEN buf[i - dst + src] ELSE buf[i]]

\* The offset of the end of the component that starts at src: that of the next
\* separator, or end.
RECURSIVE ComponentEnd(_, _, _)
ComponentEnd(buf, end, src) ==
  IF src = end \/ IsPathSeparator(CharAt(buf, src)) THEN src
  ELSE ComponentEnd(buf, end, src + 1)

\* A variant that does not see a '.' component at the end of the path.
IsDotComponent_NotAtEnd(buf, end, src) ==
  CharAt(buf, src) = "." /\ src + 1 # end /\ IsPathSeparator(CharAt(buf, src + 1))

\* The test for a '.' component at src.
IsDotComponent(buf, end, src) ==
  CharAt(buf, src) = "." /\ (src + 1 = end \/ IsPathSeparator(CharAt(buf, src + 1)))

\* if (component_count > 0) on a '..' component.
CanBackUp(components) == Len(components) > 0

\* A variant that drops the component from the stack and leaves dst.
BackUp_KeepsDst(components, dst) == dst

\* dst = components[component_count - 1]
BackUp(components, dst) == components[Len(components)]

\* The while loop of CanonicalizePath: the buffer and dst when it ends, or the
\* call of Fatal. components holds the offsets of the components kept so far.
RECURSIVE CanonicalizeLoop(_, _, _, _, _)
CanonicalizeLoop(buf, end, src, dst, components) ==
  IF src >= end THEN [buf |-> buf, dst |-> dst, fatal |-> FALSE]
  ELSE IF IsDotComponent(buf, end, src)
  THEN CanonicalizeLoop(buf, end, src + 2, dst, components)
  ELSE IF /\ CharAt(buf, src) = "."
          /\ CharAt(buf, src + 1) = "."
          /\ (src + 2 = end \/ IsPathSeparator(CharAt(buf, src + 2)))
  THEN IF CanBackUp(components)
       THEN CanonicalizeLoop(buf, end, src + 3, BackUp(components, dst),
                             SubSeq(components, 1, Len(components) - 1))
       ELSE CanonicalizeLoop(CopyChars(buf, src, dst, 3), end, src + 3, dst + 3, components)
  ELSE IF IsPathSeparator(CharAt(buf, src))
  THEN CanonicalizeLoop(buf, end, src + 1, dst, components)
  ELSE IF Len(components) = kMaxPathComponents
  THEN [buf |-> buf, dst |-> dst, fatal |-> TRUE]
  ELSE LET stop == ComponentEnd(buf, end, src)
           n == stop - src + 1
       IN  CanonicalizeLoop(CopyChars(buf, src, dst, n), end, src + n, dst + n,
                            Append(components, dst))

\* CanonicalizePath(std::string* path): the path after the call, or "fatal".
CanonicalizePath(path) ==
  IF Len(path) = 0 THEN path
  ELSE LET buf == path \o <<"NUL">>
           first == IF IsPathSeparator(CharAt(buf, 0)) THEN 1 ELSE 0
           r == CanonicalizeLoop(buf, Len(path), first, first, << >>)
       IN  IF r.fatal THEN <<"fatal">>
           ELSE IF r.dst = 0 THEN <<".">>
           ELSE SubSeq(r.buf, 1, r.dst - 1)

\* A path to canonicalize.
InitCanonicalize ==
  /\ call_in \in InputPaths
  /\ call_last = [op |-> "init"]
  /\ NoScan
  /\ NoBuild("canonicalize")
  /\ NoCycle
  /\ NoState
  /\ NoLog
  /\ NoPrinter
  /\ NoMain
  /\ NoClean

\* CanonicalizePath(&path), on the path given or on the result of the last call.
CanonicalizeCall(again) ==
  /\ again => call_last.op = "CanonicalizePath" /\ ~call_last.again
  /\ LET path == IF again THEN call_last.result ELSE call_in
     IN  call_last' = [op |-> "CanonicalizePath", path |-> path, again |-> again,
                       result |-> CanonicalizePath(path)]
  /\ UNCHANGED <<call_in, callFrame>>

NextCanonicalize == \E again \in BOOLEAN : CanonicalizeCall(again)

SpecCanonicalize == InitCanonicalize /\ [][NextCanonicalize]_vars

\* ------------------------------------------------------------ claims: the console

\* The items occur in w one after the other, in this order, from the item
\* i and the position pos on.
RECURSIVE OccurInOrder(_, _, _, _)
OccurInOrder(w, items, i, pos) ==
  IF i > Len(items) THEN TRUE
  ELSE \E k \in pos..(Len(w) - Len(items[i]) + 1) :
         /\ SubSeq(w, k, k + Len(items[i]) - 1) = items[i]
         /\ OccurInOrder(w, items, i + 1, k + Len(items[i]))

\* The texts passed to PrintOnNewLine by the calls, in order.
RECURSIVE OutputsOf(_)
OutputsOf(calls) ==
  IF calls = << >> THEN << >>
  ELSE (IF Head(calls).op = "PrintOnNewLine" /\ Head(calls).text # << >>
        THEN <<Head(calls).text>> ELSE << >>) \o OutputsOf(Tail(calls))

\* The status line that is buffered after the calls: that of the last call,
\* if it is a Print, as Print writes it.
BufferedStatus(calls, width) ==
  IF calls # << >> /\ calls[Len(calls)].op = "Print"
  THEN <<Rendered(printer.smart_terminal, calls[Len(calls)].text,
                  calls[Len(calls)].type, width)>>
  ELSE << >>

\* The console is locked, or was released by the last call on the status.
ConsoleReleased == printer_hist.op = "released"

\* C22: while an edge holds the console, what is passed to the printer is
\* not written to the terminal; when the console is released, the terminal
\* receives all the command output passed to PrintOnNewLine while it was
\* locked, in the order it was passed, followed by the most recent status
\* line that is still buffered.
C22_ConsoleBuffers ==
  /\ printer.console_locked => terminal = printer_hist.at_lock
  /\ ConsoleReleased =>
       /\ Len(terminal) >= Len(printer_hist.at_lock)
       /\ SubSeq(terminal, 1, Len(printer_hist.at_lock)) = printer_hist.at_lock
       /\ OccurInOrder(SubSeq(terminal, Len(printer_hist.at_lock) + 1, Len(terminal)),
                       OutputsOf(printer_hist.calls)
                       \o BufferedStatus(printer_hist.calls, printer_hist.width), 1, 1)

\* The console is released after two command outputs and then a status
\* line were passed, the line after an earlier one that it replaces.
C22_Witness ==
  /\ ConsoleReleased
  /\ Len(OutputsOf(printer_hist.calls)) >= 2
  /\ BufferedStatus(printer_hist.calls, printer_hist.width) # << >>
  /\ \E i \in 1..(Len(printer_hist.calls) - 1) :
       /\ printer_hist.calls[i].op = "Print"
       /\ printer_hist.calls[i + 1].op = "Print"

\* ------------------------------------------------------------ claims: real_main and RunBuild

\* C23, as stated: the manifest is parsed and rebuilt at most 100 times; if
\* every one of the 100 cycles rebuilds the manifest the process ends with
\* exit code 1, and as soon as a cycle finds the manifest not rebuilt the
\* primary build runs exactly once and the process exits with its result.
C23_LoopBoundedThenBuild ==
  /\ main.parses <= kCycleLimit
  /\ main.rebuilds <= kCycleLimit
  /\ (main.pc = "exited" /\ main.rebuilds = kCycleLimit) => main.exit_code = 1
  /\ main.builds <= 1
  /\ (main.pc = "exited" /\ main.rebuilt \in {"not_rebuilt", "error"}) =>
       /\ main.builds = 1
       /\ main.exit_code = main_last.result

\* C23, amended: the same, but the primary build runs, exactly once, as
\* soon as a cycle finds the manifest not rebuilt without an error; when
\* the rebuild of the manifest fails with an error the process exits with
\* code 1 and the primary build does not run.
C23_LoopBoundedThenBuildUnlessError ==
  /\ main.parses <= kCycleLimit
  /\ main.rebuilds <= kCycleLimit
  /\ (main.pc = "exited" /\ main.rebuilds = kCycleLimit) =>
       main.exit_code = 1 /\ main.builds = 0
  /\ main.builds <= 1
  /\ main.rebuilt = "not_rebuilt" => main.pc \in {"build", "exited"}
  /\ main.pc = "build" => main.builds = 0
  /\ (main.pc = "exited" /\ main.rebuilt = "not_rebuilt") =>
       /\ main.builds = 1
       /\ main.exit_code = main_last.result
  /\ (main.pc = "exited" /\ main.rebuilt = "error") =>
       /\ main.builds = 0
       /\ main.exit_code = 1

\* Every one of the 100 cycles rebuilt the manifest, and the process has
\* exited.
C23_Witness ==
  /\ main.pc = "exited"
  /\ main.rebuilds = kCycleLimit
  /\ main.parses = kCycleLimit
  /\ main.exit_code = 1

\* C24: RunBuild returns 0 when every requested target is already up to
\* date or the build succeeds, 2 when the build stops with the "interrupted
\* by user" error, and 1 for every other build failure and for any target
\* that cannot be resolved or added; it returns nothing else.
C24_ExitCodes ==
  main_last.op = "RunBuild" =>
    LET resolved  == main_last.collected
                     /\ \A i \in 1..Len(main_last.added) : main_last.added[i] # "error"
        uptodate  == \A i \in 1..Len(main_last.added) : main_last.added[i] = "uptodate"
        succeeded == main_last.build = << >>
        interrupt == \E i \in 1..Len(main_last.build) :
                        main_last.build[i] = "interrupted by user"
    IN  /\ main_last.result \in {0, 1, 2}
        /\ main.exit_code = main_last.result
        /\ main_last.result = 0 <=> (resolved /\ (uptodate \/ succeeded))
        /\ main_last.result = 2 <=> (resolved /\ ~uptodate /\ ~succeeded /\ interrupt)

\* A build of a target that is not up to date was interrupted.
C24_Witness ==
  /\ main_last.op = "RunBuild"
  /\ main_last.result = 2
  /\ main_last.added = <<"uptodate", "wanted">>
  /\ main_last.build = <<"interrupted by user">>

\* ------------------------------------------------------------ claims: the cleaner

\* A clean operation was made.
Cleaned == clean_last.op # "init"

\* The paths whose file the operation took off the disk.
Unlinked == {path \in CleanPaths : clean_last.disk[path] # "absent" /\ clean_disk[path] = "absent"}

\* The paths passed to RemoveFile.
CallPaths == {clean_last.calls[i].path : i \in 1..Len(clean_last.calls)}

\* The edges that produce and the edges that consume the path.
Producing(path) == {e \in StateEdges : path \in Elems(state_edges[e].outputs)}

Consuming(path) == {e \in StateEdges : path \in Elems(state_edges[e].inputs)}

\* The build log outputs that dead mode is to remove.
DeadOutputs ==
  {path \in Elems(clean_last.args) :
     path \notin DOMAIN state_paths \/ (Producing(path) = {} /\ Consuming(path) = {})}

\* C25: in dead mode the cleaner removes a build-log output if and only if no
\* node exists for its path, or the node has neither a producing edge nor any
\* consuming edge; outputs whose node has a producing or a consuming edge are
\* never removed. Removing a path is handing it to Remove, which unlinks the
\* file unless the run is dry.
C25_DeadRemovesUnreferenced ==
  clean_last.op = "CleanDead" =>
    /\ cleaner.removed_ = DeadOutputs
    /\ ~cleaner.dry_run => CallPaths = DeadOutputs
    /\ Unlinked \subseteq DeadOutputs
    /\ \A path \in Elems(clean_last.args) :
         Producing(path) # {} \/ Consuming(path) # {} => clean_disk[path] = clean_last.disk[path]

\* Dead mode met an output without a node, the output of a node that no edge
\* names, a produced output and a consumed one, and unlinked the first two only.
C25_Witness ==
  /\ clean_last.op = "CleanDead"
  /\ clean_last.args = <<"a", "gone", "orphan", "src">>
  /\ clean_last.disk["a"] = "present"
  /\ Unlinked = {"gone", "orphan"}
  /\ cleaner.cleaned_files_count_ = 2

\* The outputs of the phony edges, and those of the generator edges.
PhonyOutputs == UNION {Elems(state_edges[e].outputs) : e \in {e \in StateEdges : is_phony(state_edges[e])}}

GeneratorOutputs == UNION {Elems(state_edges[e].outputs) : e \in {e \in StateEdges : state_edges[e].generator}}

\* C26: in every cleaner mode (all, targets, rules), outputs of phony edges are
\* never removed, and outputs of generator edges are removed only when
\* generator cleaning is explicitly requested.
C26_PhonyAndGeneratorKept ==
  clean_last.op \in {"CleanAll", "CleanTargets", "CleanRules"} =>
    /\ Unlinked \cap PhonyOutputs = {}
    /\ Unlinked \cap GeneratorOutputs # {} => clean_last.op = "CleanAll" /\ clean_last.generator

\* C27 as stated: in dry-run mode no clean operation ever calls remove_file:
\* the set of files on disk is the same before and after, and the reported
\* count is the number of distinct candidate paths that exist on disk.
C27_DryRunCountsExisting ==
  Cleaned /\ cleaner.dry_run =>
    /\ clean_last.calls = << >>
    /\ clean_disk = clean_last.disk
    /\ clean_last.count = Cardinality({path \in cleaner.removed_ : clean_disk[path] # "absent"})

\* C27: in dry-run mode no clean operation ever calls remove_file: the set of
\* files on disk is the same before and after, and the reported count is the
\* number of distinct candidate paths whose stat succeeds with a file (a path
\* whose stat fails with an error is not counted, though a file may be there).
C27_DryRunCountsStatted ==
  Cleaned /\ cleaner.dry_run =>
    /\ clean_last.calls = << >>
    /\ clean_disk = clean_last.disk
    /\ clean_last.count = Cardinality({path \in cleaner.removed_ : DiskStat(clean_disk, path) > 0})

\* A dry run of CleanAll met the shared depfile, a missing output and an output
\* whose stat fails, and counted the depfile and the response file.
C27_Witness ==
  /\ clean_last.op = "CleanAll"
  /\ cleaner.dry_run
  /\ cleaner.removed_ = {"a", "b", "d", "r"}
  /\ clean_disk["a"] = "absent"
  /\ clean_disk["b"] = "denied"
  /\ clean_disk["d"] = "present"
  /\ clean_last.count = 2

\* C28: within one clean operation each distinct path is passed to remove_file
\* at most once, even if it is an output or auxiliary file of several visited
\* edges, and the reported count equals the number of distinct paths for which
\* remove_file returned 0 (removed); paths that did not exist (1) or failed
\* (-1) are not counted, and a failure sets the returned status to 1.
C28_RemovedOnceAndCounted ==
  Cleaned /\ ~cleaner.dry_run =>
    LET calls == clean_last.calls
    IN  /\ \A i, j \in 1..Len(calls) : calls[i].path = calls[j].path => i = j
        /\ clean_last.count = Cardinality({calls[i].path : i \in {i \in 1..Len(calls) : calls[i].ret = 0}})
        /\ (\E i \in 1..Len(calls) : calls[i].ret = 0 - 1) => clean_last.result = 1

\* CleanAll visited the two edges that share the depfile, removed it once,
\* found one output missing and failed to remove the other.
C28_Witness ==
  /\ clean_last.op = "CleanAll"
  /\ ~clean_last.generator
  /\ clean_last.calls = <<[path |-> "a", ret |-> 1], [path |-> "d", ret |-> 0],
                          [path |-> "b", ret |-> 0 - 1], [path |-> "r", ret |-> 0]>>
  /\ clean_last.count = 2
  /\ clean_last.result = 1

\* ------------------------------------------------------------ claims: root nodes and Reset

\* C29 as stated: root_nodes() returns exactly the nodes of the node table
\* whose out_edges list is empty.
C29_RootsAreNodesWithoutOutEdges ==
  state_last.op = "RootNodes" =>
    Elems(state_last.nodes) = {n \in DOMAIN state_paths : state_paths[n].out_edges = << >>}

\* C29: root_nodes() returns exactly the nodes of the node table that are an
\* output of some edge and whose out_edges list is empty, each of them once.
C29_RootsAreOutputsWithoutOutEdges ==
  state_last.op = "RootNodes" =>
    /\ Elems(state_last.nodes) =
         {n \in DOMAIN state_paths :
            /\ state_paths[n].out_edges = << >>
            /\ \E e \in StateEdges : n \in Elems(state_edges[e].outputs)}
    /\ \A i, j \in 1..Len(state_last.nodes) : state_last.nodes[i] = state_last.nodes[j] => i = j

\* RootNodes returned an output that no edge consumes, on a graph that also
\* holds a node that no edge produces or consumes.
C29_Witness ==
  /\ state_last.op = "RootNodes"
  /\ Len(state_last.nodes) = 1
  /\ \E n \in DOMAIN state_paths :
       state_paths[n].out_edges = << >> /\ state_paths[n].in_edge = << >>

\* C30: after reset(), whatever build state preceded it, every node's status
\* is unknown and every edge has outputs_ready = false, deps_loaded = false
\* and mark = none.
C30_ResetClears ==
  state_last.op = "Reset" =>
    /\ \A path \in DOMAIN state_paths : state_paths[path].status = "unknown"
    /\ \A e \in StateEdges :
         /\ state_edges[e].outputs_ready = FALSE
         /\ state_edges[e].deps_loaded = FALSE
         /\ state_edges[e].mark = "none"

\* Reset was called after a build that left a node dirty, a node clean, an
\* edge done with its deps loaded and its outputs ready, and an edge in the
\* stack.
C30_Witness ==
  /\ state_last.op = "Reset"
  /\ state_last.paths["b"].status = "dirty"
  /\ state_last.paths["src"].status = "clean"
  /\ state_last.edges[1].mark = "done"
  /\ state_last.edges[1].deps_loaded
  /\ state_last.edges[1].outputs_ready
  /\ state_last.edges[2].mark = "in-stack"

\* ------------------------------------------------------------ claims: the scan's stat calls

\* The nodes reachable from the nodes of S through inputs, S included.
RECURSIVE Reachable(_)
Reachable(S) ==
  LET more == S \cup UNION {inputs[n] : n \in S}
  IN  IF more = S THEN S ELSE Reachable(more)

\* The nodes reachable from n that are not in seen, in depth-first order of
\* the inputs, each once.
RECURSIVE DepthFirst(_, _)
RECURSIVE DepthFirstInputs(_, _, _)
DepthFirst(n, seen) ==
  IF n \in seen THEN << >>
  ELSE <<n>> \o DepthFirstInputs(NodesInOrder(inputs[n]), 1, seen \cup {n})

DepthFirstInputs(seq, i, seen) ==
  IF i > Len(seq) THEN << >>
  ELSE LET first == DepthFirst(seq[i], seen)
       IN  first \o DepthFirstInputs(seq, i + 1, seen \cup Elems(first))

\* The stat calls the scan made: those after the ones made before it.
ScanStats == SubSeq(stats, Len(last.stats) + 1, Len(stats))

\* C31: recompute_dirty stats every node transitively reachable from the
\* target exactly once and never stats again a node whose stat result is
\* already known: for a target already statted, the number of stat calls made
\* by the scan equals the number of other reachable nodes, in depth-first
\* input order.
C31_StatsEachReachableNodeOnce ==
  last.op = "RecomputeDirty" =>
    LET known == Elems(last.stats)
        reach == Reachable({last.edge})
    IN  /\ Elems(ScanStats) = reach \ known
        /\ Len(ScanStats) = Cardinality(reach \ known)
        /\ \A n \in reach : Count(stats, n) = 1
        /\ ScanStats = SelectSeq(DepthFirst(last.edge, {}), LAMBDA n : n \notin known)
        /\ last.stats = <<last.edge>> =>
             /\ Len(ScanStats) = Cardinality(reach \ {last.edge})
             /\ ScanStats = Tail(DepthFirst(last.edge, {}))

\* The scan of a target statted before, whose two inputs share an input: the
\* scan statted the two others, the shared one once.
C31_Witness ==
  /\ last.op = "RecomputeDirty"
  /\ last.edge = 1
  /\ last.stats = <<1>>
  /\ inputs[1] = {2, 3}
  /\ inputs[2] = {3}
  /\ stats = <<1, 2, 3>>

\* ------------------------------------------------------------ claims: Stat

\* C32: stat(path) returns 0 exactly when the file does not exist (including
\* a missing or non-directory path prefix) and then sets no error, returns -1
\* with a non-empty error string on any other failure, and returns a value > 0
\* for every existing file, mapping an OS mtime of 0 to 1.
C32_StatReturnValue ==
  call_last.op = "Stat" =>
    LET os == call_in[call_last.path]
        r == call_last.result
        missing == os.rc < 0 /\ os.errno \in {"ENOENT", "ENOTDIR"}
    IN  /\ r.ret = 0 <=> missing
        /\ r.ret = 0 => r.err = << >>
        /\ os.rc < 0 /\ ~missing => r.ret = 0 - 1 /\ r.err # << >>
        /\ os.rc = 0 => r.ret > 0
        /\ os.rc = 0 /\ os.tv_sec = 0 /\ os.tv_nsec = 0 => r.ret = 1

\* ------------------------------------------------------------ claims: CanonicalizePath

\* CanonicalizePath was called and returned.
Canonicalized == call_last.op = "CanonicalizePath" /\ call_last.result # <<"fatal">>

\* C33 (P3): CanonicalizePath is idempotent: for every path p (with at most 60
\* components), CanonicalizePath(CanonicalizePath(p)) == CanonicalizePath(p).
C33_Idempotent ==
  Canonicalized =>
    /\ CanonicalizePath(call_last.result) = call_last.result
    /\ call_last.again => call_last.result = call_last.path

\* The second call on a path whose first call backed up over a component and
\* kept a '..' that had none to back up over.
C33_Witness ==
  /\ Canonicalized
  /\ call_last.again
  /\ call_in = <<"a", "/", ".", ".", "/", ".", ".">>
  /\ call_last.result = <<".", ".">>

\* The components of a path: its maximal runs of characters other than the
\* separator.
RECURSIVE Components(_)
Components(path) ==
  IF path = << >> THEN << >>
  ELSE IF IsPathSeparator(Head(path)) THEN Components(Tail(path))
  ELSE LET stop == ComponentEnd(path \o <<"NUL">>, Len(path), 0)
       IN  <<SubSeq(path, 1, stop)>> \o Components(SubSeq(path, stop + 1, Len(path)))

\* C34: for every input path the result of CanonicalizePath is never longer
\* than the input, contains no empty component (no '//'), no '.' component
\* other than the whole result being '.', and '..' components only as a
\* leading run (after the separator of an absolute path); in particular
\* '' -> '', '/' -> '', './.' -> '.', 'foo/..' -> '.', '../../a' -> '../../a',
\* 'foo//bar' -> 'foo/bar'.
C34_CanonicalForm ==
  /\ Canonicalized =>
       LET r == call_last.result
           cs == Components(r)
       IN  /\ Len(r) <= Len(call_last.path)
           /\ \A i \in 1..(Len(r) - 1) : ~(r[i] = "/" /\ r[i + 1] = "/")
           /\ r # <<".">> => \A i \in 1..Len(cs) : cs[i] # <<".">>
           /\ \A i, j \in 1..Len(cs) : i < j /\ cs[j] = <<".", ".">> => cs[i] = <<".", ".">>
  /\ CanonicalizePath(<< >>) = << >>
  /\ CanonicalizePath(<<"/">>) = << >>
  /\ CanonicalizePath(<<".", "/", ".">>) = <<".">>
  /\ CanonicalizePath(<<"a", "/", ".", ".">>) = <<".">>
  /\ CanonicalizePath(<<".", ".", "/", ".", ".", "/", "a">>) = <<".", ".", "/", ".", ".", "/", "a">>
  /\ CanonicalizePath(<<"a", "/", "/", "a">>) = <<"a", "/", "a">>

\* The call on 'a//./a', which drops the '.' component and the double
\* separator.
C34_Witness ==
  /\ Canonicalized
  /\ call_last.path = <<"a", "/", "/", ".", "/", "a">>
  /\ call_last.result = <<"a", "/", "a">>

\* ------------------------------------------------------------ claims: lines that are no records

\* What Load makes of the records of the file alone, the lines with fewer than
\* four separators left out.
LoadedFromRecords ==
  LoadLines(SelectSeq(FileBefore.lines, LAMBDA l : Count(l, kFieldSeparator) >= 4), VersionBefore)

\* Load is as if the lines with fewer than four separators were not there.
OnlyRecordsLoaded ==
  /\ entries = LoadedFromRecords.entries
  /\ DOMAIN entries = OutputsBefore
  /\ log_hist.total = Cardinality(RecordsBefore)
  /\ log_hist.unique = Cardinality(OutputsBefore)

\* C35 as stated: during Load, a line that lacks four tab separators
\* (including the header line and truncated or garbage lines) changes
\* nothing: it adds no entry, modifies no existing entry, and is not counted
\* in the total or unique record counts; well-formed lines before and after
\* it are still loaded.
C35_LinesWithoutTabsSkipped ==
  LoadedSomething /\ log_last.result = "LOAD_SUCCESS" => OnlyRecordsLoaded

\* C35: the same, during Load of a log whose first line is the header of a
\* supported version; a first line that is none has Load delete the file and
\* load nothing.
C35_LinesWithoutTabsSkippedInSupportedLog ==
  LoadedSomething /\ log_last.result = "LOAD_SUCCESS" /\ VersionBefore >= kOldestSupportedVersion
    => OnlyRecordsLoaded

\* A log of the current version was loaded that holds, between two records, a
\* line without separator and a line cut after its third separator.
C35_Witness ==
  /\ LoadedSomething
  /\ FileBefore = MixedLogFile(kCurrentVersion)
  /\ DOMAIN entries = {OutputA, OutputB}
  /\ log_hist.total = 2

\* ------------------------------------------------------------ claims: RecordCommand appends

\* The characters of the lines from line i on, each with its newline.
RECURSIVE LinesContent(_, _)
LinesContent(lines, i) ==
  IF i > Len(lines) THEN << >> ELSE lines[i] \o <<"\n">> \o LinesContent(lines, i + 1)

\* The content of the log file on the disk fs; none when there is no file.
LogContent(fs) ==
  IF LogPath \in DOMAIN fs THEN LinesContent(fs[LogPath].lines, 1) \o fs[LogPath].tail
  ELSE << >>

\* The records of the call's outputs from output i on, as they are written.
RECURSIVE RecordsContent(_, _, _)
RecordsContent(outs, rec, i) ==
  IF i > Len(outs) THEN << >>
  ELSE WriteEntry([output |-> outs[i], start_time |-> rec.start_time,
                   end_time |-> rec.end_time, mtime |-> rec.mtime,
                   command_hash |-> rec.command_hash]) \o <<"\n">>
       \o RecordsContent(outs, rec, i + 1)

\* What the first write to an empty log puts before the records.
SignatureContent ==
  IF ~log_last.log_file /\ LogContent(log_last.files) = << >>
  THEN SignatureLine \o <<"\n">> ELSE << >>

IsPrefix(s, t) == Len(s) <= Len(t) /\ SubSeq(t, 1, Len(s)) = s

\* RecordCommand has returned true on a log opened for writing.
Recorded ==
  /\ log_last.op = "RecordCommand"
  /\ log_last.result = TRUE
  /\ log_last.path # ""

C37_RunningIsStartedMinusFinished ==
  printer.pc \in {"building", "finished"} =>
    /\ printer.running_edges = printer.started_edges - printer.finished_edges
    /\ printer.running_edges >= 0

\* ------------------------------------------------------------ claims: cleaning a target ends

\* The nodes reachable from the nodes of S through the inputs of the edges
\* that make them.
RECURSIVE ThroughInputs(_)
ThroughInputs(S) ==
  LET more == S \cup UNION {Elems(InEdgeInputs(n)) : n \in S}
  IN  IF more = S THEN S ELSE ThroughInputs(more)

\* CleanTargets has returned, and DoCleanTarget has been called once for
\* each node reachable from the target and for no other.
CleanedEachOnce ==
  /\ cleaner.pc = "done"
  /\ \A path \in CleanPaths :
       cleaner.visits[path] = IF path \in ThroughInputs({cleaner.target}) THEN 1 ELSE 0

\* C38: cleaning a target terminates on every graph that AddEdge, AddIn and
\* AddOut can make, graphs with a dependency cycle included, and visits each
\* node reachable from the target through inputs exactly once.
C38_CleanTargetTerminates ==
  (cleaner.pc = "target") ~> CleanedEachOnce

\* ------------------------------------------------------------ claims: RetrieveReadyEdges conserves edges

\* C39: RetrieveReadyEdges conserves edges: every edge that was in the
\* delayed set before the call is afterwards in exactly one of the delayed
\* set or the ready queue, the edges already in the ready queue stay there,
\* the transferred edges form a prefix of the delayed set's iteration order,
\* and current_use grows by exactly the total weight of the transferred edges.
C39_RetrieveConservesEdges ==
  last.op = "RetrieveReadyEdges" =>
    /\ delayed \subseteq last.delayed
    /\ \A e \in last.delayed : (e \in delayed) # (e \in ready_queue)
    /\ last.ready \subseteq ready_queue
    /\ ready_queue = last.ready \cup Transferred
    /\ Transferred = SeqPrefixSet(InOrder(last.delayed), Cardinality(Transferred))
    /\ current_use = last.use + SumWeights(Transferred, weight)

\* A call moved an edge into a ready queue that held an edge, and left an
\* edge delayed.
C39_Witness ==
  /\ last.op = "RetrieveReadyEdges"
  /\ last.ready # {}
  /\ last.ready # ready_queue
  /\ delayed # {}
  /\ current_use > last.use

\* ------------------------------------------------------------ claims: the build log in a dry run

\* A call on a build log that has not been opened for writing.
DryRunCall == log_file_path = "" /\ log_file_path' = ""

\* RecordCommand has returned true and the entries of its outputs hold the
\* values of the call.
RecordedInMemory ==
  /\ log_last.result = TRUE
  /\ \A i \in 1..Len(log_last.outs) :
       /\ log_last.outs[i] \in DOMAIN entries
       /\ entries[log_last.outs[i]] =
            [output |-> log_last.outs[i], start_time |-> log_last.rec.start_time,
             end_time |-> log_last.rec.end_time, mtime |-> log_last.rec.mtime,
             command_hash |-> log_last.rec.command_hash]

\* Load has deleted a log whose first line is not the signature of a
\* supported version.
LoadDeletesOldLog ==
  /\ log_last'.op = "Load"
  /\ LogPath \in DOMAIN files
  /\ TooOld(FileVersion(files[LogPath]))
  /\ files' = Unlink(files, LogPath)

\* C40 as stated: in dry-run mode (the build log is loaded but never opened
\* for writing) no sequence of Load, RecordCommand and Close creates,
\* modifies or deletes the build log file on disk; RecordCommand still
\* updates the in-memory entries and reports success.
C40_DryRunLeavesLogFile ==
  [][DryRunCall =>
       /\ files' = files
       /\ (log_last'.op = "RecordCommand" => RecordedInMemory')]_vars

\* C40: the same, but for Load of a log whose first line is not the
\* signature of a supported version, which Load deletes in a dry run too.
C40_DryRunLeavesSupportedLogFile ==
  [][DryRunCall =>
       /\ files' = files \/ LoadDeletesOldLog
       /\ (log_last'.op = "RecordCommand" => RecordedInMemory')]_vars

\* A dry run has loaded a log, recorded a command over one of its entries,
\* and closed the log: the file is there as it was.
C40_Witness ==
  /\ log_pc = "closed"
  /\ log_file_path = ""
  /\ log_hist.records > 0
  /\ LogPath \in DOMAIN files
  /\ files[LogPath] = MixedLogFile(kCurrentVersion)
  /\ entries # LoadFile(files[LogPath]).entries

====
